---- MODULE Spec2Model ----
(***************************************************************************)
(* A model of schematch's matching core: the compiler of validators into   *)
(* {sync, async} matchers (standard-schema/compiled.ts), the dispatch      *)
(* table builder and the reusable matcher's executor (match.ts).           *)
(***************************************************************************)
EXTENDS Integers, Sequences, FiniteSets, TLC

(***************************************************************************)
(* Runtime values.  A value is a record [k, a, f]:                         *)
(*   k = "prim": the primitive named by the atom a                         *)
(*   k = "obj" : a plain keyed record; f[i] is the atom under Keys[i],     *)
(*               "undef" when the key is absent                            *)
(*   k = "arr" : an array of the atoms f                                   *)
(*   k = "promise": a pending computation                                  *)
(***************************************************************************)
Keys == <<"type", "kind", "x">>

P(a) == [k |-> "prim", a |-> a, f |-> <<>>]

Obj(t, kd, x) == [k |-> "obj", a |-> "", f |-> <<t, kd, x>>]

Arr(s) == [k |-> "arr", a |-> "", f |-> s]

NoVal == [k |-> "none", a |-> "", f |-> <<>>]

Pending == [k |-> "promise", a |-> "", f |-> <<>>]

KeyIdx(key) == CHOOSE i \in 1..Len(Keys) : Keys[i] = key

\* record[key] of a plain keyed record
Field(v, key) == v.f[KeyIdx(key)]

\* JavaScript's typeof for an atom
TypeOf(a) ==
  IF a \in {"n1", "n5", "nan"} THEN "number"
  ELSE IF a \in {"sa", "sb", "SA", "SB"} THEN "string"
  ELSE IF a = "undef" THEN "undefined"
  ELSE "object"

isPlainObject(v) == v.k = "obj"

isPromiseLike(v) == v.k = "promise"

\* Object.is(value, literal) for a literal atom
ObjectIs(v, lit) == v = P(lit)

(***************************************************************************)
(* Validators.  Every schema node is a record with the same fields; which  *)
(* of them a family's introspection reads is fixed by fam and type.        *)
(*   fam    "zod" | "valibot" | "arktype" | "fastcheck" | "generic"        *)
(*   type   the node's type tag (def.type / schema.type); "unit" for an    *)
(*          arktype unit, "fn" for a validator known only by its validate  *)
(*   lit    the literal atom of a literal / unit node                      *)
(*   shape  <<[key, s]>>: def.shape / schema.entries                       *)
(*   items  tuple items; the inner schema of optional / pipe / array       *)
(*   rest   the tuple has a rest element (its schema is options[1])        *)
(*   options union / variant options                                       *)
(*   key    variant discriminator key                                      *)
(*   checks a refinement in def.checks / schema.pipe ("none": none)        *)
(*   xf     a transform: zod pipe's out, a valibot pipe transform, an      *)
(*          arktype morph, a generic validator's output map                *)
(*   pred   the acceptance predicate of fastcheck / generic / allows       *)
(*   async  validation returns a pending computation                       *)
(***************************************************************************)
S0 ==
  [fam |-> "generic", type |-> "fn", lit |-> "", shape |-> <<>>, items |-> <<>>,
   rest |-> FALSE, options |-> <<>>, key |-> "", checks |-> "none",
   xf |-> "none", pred |-> "none", async |-> FALSE]

\* A refinement predicate (refine / check) on a value
CheckHolds(id, v) ==
  CASE id = "none" -> TRUE
    [] id = "isSa" -> v = P("sa")
    [] id = "never" -> FALSE
    [] OTHER -> TRUE

\* A transform function on a value
XForm(id, v) ==
  CASE id = "none" -> v
    [] id = "upper" -> IF v = P("sa") THEN P("SA")
                       ELSE IF v = P("sb") THEN P("SB") ELSE v
    [] OTHER -> v

\* The acceptance predicate of a hand-written validator
PredHolds(id, v) ==
  CASE id = "any" -> TRUE
    [] id = "never" -> FALSE
    [] id = "isNumber" -> v.k = "prim" /\ TypeOf(v.a) = "number"
    [] id = "isString" -> v.k = "prim" /\ TypeOf(v.a) = "string"
    [] id = "isN5" -> v = P("n5")
    [] id = "isObject" -> v.k = "obj"
    [] id = "typeSa" -> v.k = "obj" /\ Field(v, "type") = "sa"
    [] id = "typeSb" -> v.k = "obj" /\ Field(v, "type") = "sb"
    [] OTHER -> FALSE

Ok(v) == [ok |-> TRUE, v |-> v]

Fail == [ok |-> FALSE, v |-> NoVal]

\* the atom an object field or array item gets from a sub-result
AtomOf(v) == IF v.k = "prim" THEN v.a ELSE "undef"

\* index just past the last non-optional tuple item (zod's optStart)
RECURSIVE OptStart(_, _)
OptStart(items, n) ==
  IF n = 0 THEN 0
  ELSE IF items[n].type = "optional" THEN OptStart(items, n - 1)
  ELSE n

Min(a, b) == IF a < b THEN a ELSE b

(***************************************************************************)
(* Full validation, as the validator libraries perform it.                 *)
(***************************************************************************)
RECURSIVE ZodRun(_, _)
ZodRun(s, v) ==
  LET refined(r) == IF r.ok /\ CheckHolds(s.checks, r.v) THEN r ELSE Fail
  IN
  CASE s.type = "literal" -> refined(IF ObjectIs(v, s.lit) THEN Ok(v) ELSE Fail)
    [] s.type \in {"string", "number"} ->
         refined(IF v.k = "prim" /\ TypeOf(v.a) = s.type /\ v.a # "nan"
                 THEN Ok(v) ELSE Fail)
    [] s.type = "optional" ->
         IF v = P("undef") THEN Ok(v) ELSE ZodRun(s.items[1], v)
    [] s.type = "pipe" ->
         LET r == ZodRun(s.items[1], v)
         IN IF r.ok THEN Ok(XForm(s.xf, r.v)) ELSE Fail
    [] s.type = "array" ->
         IF v.k = "arr" /\ \A i \in 1..Len(v.f) : ZodRun(s.items[1], P(v.f[i])).ok
         THEN Ok(v) ELSE Fail
    [] s.type = "object" ->
         IF v.k # "obj" THEN Fail
         ELSE
           LET sub(i) == ZodRun(s.shape[i].s, P(Field(v, s.shape[i].key)))
               out(k) ==
                 IF \E i \in 1..Len(s.shape) : s.shape[i].key = Keys[k]
                 THEN AtomOf(sub(CHOOSE i \in 1..Len(s.shape) : s.shape[i].key = Keys[k]).v)
                 ELSE "undef"
           IN refined(IF \A i \in 1..Len(s.shape) : sub(i).ok
                      THEN Ok([k |-> "obj", a |-> "", f |-> [k \in 1..Len(Keys) |-> out(k)]])
                      ELSE Fail)
    [] s.type = "tuple" ->
         IF v.k # "arr" THEN Fail
         ELSE
           LET n == Len(s.items)
               len == Len(v.f)
           IN refined(
                IF /\ len >= OptStart(s.items, n)
                   /\ (s.rest \/ len <= n)
                   /\ \A i \in 1..Min(n, len) : ZodRun(s.items[i], P(v.f[i])).ok
                   /\ \A i \in (n + 1)..len : ZodRun(s.options[1], P(v.f[i])).ok
                THEN Ok(v) ELSE Fail)
    [] s.type = "union" ->
         IF \E i \in 1..Len(s.options) : ZodRun(s.options[i], v).ok
         THEN refined(ZodRun(s.options[CHOOSE i \in 1..Len(s.options) :
                               /\ ZodRun(s.options[i], v).ok
                               /\ \A j \in 1..(i - 1) : ~ZodRun(s.options[j], v).ok], v))
         ELSE Fail
    [] OTHER -> Fail

RECURSIVE ValibotRun(_, _)
ValibotRun(s, v) ==
  LET piped(r) ==
        IF r.ok /\ CheckHolds(s.checks, r.v) THEN Ok(XForm(s.xf, r.v)) ELSE Fail
  IN
  CASE s.type = "literal" -> piped(IF ObjectIs(v, s.lit) THEN Ok(v) ELSE Fail)
    [] s.type \in {"string", "number"} ->
         piped(IF v.k = "prim" /\ TypeOf(v.a) = s.type /\ v.a # "nan"
               THEN Ok(v) ELSE Fail)
    [] s.type = "optional" ->
         IF v = P("undef") THEN Ok(v) ELSE ValibotRun(s.items[1], v)
    [] s.type = "object" ->
         IF v.k # "obj" THEN Fail
         ELSE
           LET sub(i) == ValibotRun(s.shape[i].s, P(Field(v, s.shape[i].key)))
               out(k) ==
                 IF \E i \in 1..Len(s.shape) : s.shape[i].key = Keys[k]
                 THEN AtomOf(sub(CHOOSE i \in 1..Len(s.shape) : s.shape[i].key = Keys[k]).v)
                 ELSE "undef"
           IN piped(IF \A i \in 1..Len(s.shape) : sub(i).ok
                    THEN Ok([k |-> "obj", a |-> "", f |-> [k \in 1..Len(Keys) |-> out(k)]])
                    ELSE Fail)
    [] s.type = "tuple" ->
         \* v.tuple: every declared item is validated (a missing one as
         \* undefined), unknown items are removed from the output
         IF v.k # "arr" THEN Fail
         ELSE
           LET n == Len(s.items)
               item(i) == IF i <= Len(v.f) THEN P(v.f[i]) ELSE P("undef")
           IN piped(IF \A i \in 1..n : ValibotRun(s.items[i], item(i)).ok
                    THEN Ok(Arr([i \in 1..n |-> AtomOf(ValibotRun(s.items[i], item(i)).v)]))
                    ELSE Fail)
    [] s.type = "variant" ->
         IF v.k # "obj" THEN Fail
         ELSE
           IF \E i \in 1..Len(s.options) : ValibotRun(s.options[i], v).ok
           THEN piped(ValibotRun(s.options[CHOOSE i \in 1..Len(s.options) :
                                   /\ ValibotRun(s.options[i], v).ok
                                   /\ \A j \in 1..(i - 1) : ~ValibotRun(s.options[j], v).ok], v))
           ELSE Fail
    [] s.type = "union" ->
         IF \E i \in 1..Len(s.options) : ValibotRun(s.options[i], v).ok
         THEN piped(ValibotRun(s.options[CHOOSE i \in 1..Len(s.options) :
                                 /\ ValibotRun(s.options[i], v).ok
                                 /\ \A j \in 1..(i - 1) : ~ValibotRun(s.options[j], v).ok], v))
         ELSE Fail
    [] OTHER -> Fail

\* an arktype type called as a function: allows, then its morph
ArkCall(s, v) ==
  IF (IF s.type = "unit" THEN ObjectIs(v, s.lit) ELSE PredHolds(s.pred, v))
  THEN Ok(XForm(s.xf, v)) ELSE Fail

\* a hand-written validator: its predicate, then its output map
FnValidate(s, v) == IF PredHolds(s.pred, v) THEN Ok(XForm(s.xf, v)) ELSE Fail

\* schema['~standard'].validate(value), once settled
Validate(s, v) ==
  CASE s.fam = "zod" -> ZodRun(s, v)
    [] s.fam = "valibot" -> ValibotRun(s, v)
    [] s.fam = "arktype" -> ArkCall(s, v)
    [] OTHER -> FnValidate(s, v)

(***************************************************************************)
(* Match outcomes of a compiled matcher.                                   *)
(***************************************************************************)
Matched(v) == [t |-> "matched", v |-> v]

NO_MATCH == [t |-> "nomatch", v |-> NoVal]

ASYNC_REQUIRED == [t |-> "async", v |-> NoVal]

(***************************************************************************)
(* compileZodLikePrecheck: null (ZodPreSome false) or {check, complete}.   *)
(***************************************************************************)
RECURSIVE ZodPreSome(_)
ZodPreSome(s) ==
  CASE s.type = "literal" -> TRUE
    [] s.type = "object" -> TRUE
    [] s.type = "tuple" -> TRUE
    [] s.type = "union" ->
         Len(s.options) > 0 /\ \E i \in 1..Len(s.options) : ZodPreSome(s.options[i])
    [] s.type \in {"string", "number"} -> TRUE
    [] OTHER -> FALSE

RECURSIVE ZodPreCheck(_, _)
ZodPreCheck(s, v) ==
  CASE s.type = "literal" -> ObjectIs(v, s.lit)
    [] s.type = "object" ->
         /\ isPlainObject(v)
         /\ \A i \in 1..Len(s.shape) :
              ZodPreSome(s.shape[i].s) =>
                ZodPreCheck(s.shape[i].s, P(Field(v, s.shape[i].key)))
    [] s.type = "tuple" ->
         /\ v.k = "arr"
         /\ Len(v.f) >= Len(s.items)
         /\ (~s.rest => Len(v.f) <= Len(s.items))
         /\ \A i \in 1..Len(s.items) :
              ZodPreSome(s.items[i]) => ZodPreCheck(s.items[i], P(v.f[i]))
    [] s.type = "union" ->
         \E i \in 1..Len(s.options) :
           ZodPreSome(s.options[i]) /\ ZodPreCheck(s.options[i], v)
    [] s.type \in {"string", "number"} -> v.k = "prim" /\ TypeOf(v.a) = s.type
    [] OTHER -> FALSE

RECURSIVE ZodPreComplete(_)
ZodPreComplete(s) ==
  LET hasChecks == s.checks # "none"
  IN
  CASE s.type = "literal" -> ~hasChecks
    [] s.type = "object" ->
         /\ \E i \in 1..Len(s.shape) : ZodPreSome(s.shape[i].s)
         /\ ~hasChecks
         /\ \A i \in 1..Len(s.shape) :
              ZodPreSome(s.shape[i].s) /\ ZodPreComplete(s.shape[i].s)
    [] s.type = "tuple" ->
         IF Len(s.items) = 0 /\ ~s.rest THEN ~hasChecks
         ELSE /\ ~hasChecks
              /\ ~s.rest
              /\ \A i \in 1..Len(s.items) :
                   ZodPreSome(s.items[i]) /\ ZodPreComplete(s.items[i])
    [] s.type = "union" ->
         \A i \in 1..Len(s.options) :
           ZodPreSome(s.options[i]) /\ ZodPreComplete(s.options[i])
    [] s.type \in {"string", "number"} -> ~hasChecks
    [] OTHER -> FALSE

(***************************************************************************)
(* compileValibotPrecheck.                                                 *)
(***************************************************************************)
hasPipe(s) == s.checks # "none" \/ s.xf # "none"

\* option?.entries?.[key]?.literal ("undef": undefined)
EntryLit(option, key) ==
  IF \E i \in 1..Len(option.shape) :
       option.shape[i].key = key /\ option.shape[i].s.type = "literal"
  THEN option.shape[CHOOSE i \in 1..Len(option.shape) : option.shape[i].key = key].s.lit
  ELSE "undef"

\* the options a variant's byDiscriminator map has an entry for
VariantKeyed(s) == {i \in 1..Len(s.options) : EntryLit(s.options[i], s.key) # "undef"}

\* byDiscriminator.get(lit): the last option set under lit (0: none)
VariantLookup(s, lit) ==
  LET c == {i \in VariantKeyed(s) : EntryLit(s.options[i], s.key) = lit}
  IN IF c = {} THEN 0 ELSE CHOOSE i \in c : \A j \in c : j <= i

RECURSIVE ValibotPreSome(_)
ValibotPreSome(s) ==
  CASE s.type = "literal" -> TRUE
    [] s.type = "object" -> TRUE
    [] s.type = "tuple" -> TRUE
    [] s.type = "variant" -> Len(s.options) > 0 /\ VariantKeyed(s) # {}
    [] s.type = "union" ->
         Len(s.options) > 0 /\ \E i \in 1..Len(s.options) : ValibotPreSome(s.options[i])
    [] s.type \in {"string", "number"} -> TRUE
    [] OTHER -> FALSE

RECURSIVE ValibotPreCheck(_, _)
ValibotPreCheck(s, v) ==
  CASE s.type = "literal" -> ObjectIs(v, s.lit)
    [] s.type = "object" ->
         /\ isPlainObject(v)
         /\ \A i \in 1..Len(s.shape) :
              ValibotPreSome(s.shape[i].s) =>
                ValibotPreCheck(s.shape[i].s, P(Field(v, s.shape[i].key)))
    [] s.type = "tuple" ->
         /\ v.k = "arr"
         /\ Len(v.f) >= Len(s.items)
         /\ (~s.rest => Len(v.f) <= Len(s.items))
         /\ \A i \in 1..Len(s.items) :
              ValibotPreSome(s.items[i]) => ValibotPreCheck(s.items[i], P(v.f[i]))
    [] s.type = "variant" ->
         /\ isPlainObject(v)
         /\ VariantLookup(s, Field(v, s.key)) # 0
         /\ LET o == s.options[VariantLookup(s, Field(v, s.key))]
            IN ValibotPreSome(o) => ValibotPreCheck(o, v)
    [] s.type = "union" ->
         \E i \in 1..Len(s.options) :
           ValibotPreSome(s.options[i]) /\ ValibotPreCheck(s.options[i], v)
    [] s.type \in {"string", "number"} -> v.k = "prim" /\ TypeOf(v.a) = s.type
    [] OTHER -> FALSE

RECURSIVE ValibotPreComplete(_)
ValibotPreComplete(s) ==
  CASE s.type = "literal" -> ~hasPipe(s)
    [] s.type = "object" ->
         /\ \E i \in 1..Len(s.shape) : ValibotPreSome(s.shape[i].s)
         /\ ~hasPipe(s)
         /\ \A i \in 1..Len(s.shape) :
              ValibotPreSome(s.shape[i].s) /\ ValibotPreComplete(s.shape[i].s)
    [] s.type = "tuple" ->
         IF Len(s.items) = 0 /\ ~s.rest THEN ~hasPipe(s)
         ELSE /\ ~hasPipe(s)
              /\ ~s.rest
              /\ \A i \in 1..Len(s.items) :
                   ValibotPreSome(s.items[i]) /\ ValibotPreComplete(s.items[i])
    [] s.type = "variant" ->
         /\ ~hasPipe(s)
         /\ \A i \in VariantKeyed(s) :
              ValibotPreSome(s.options[i]) /\ ValibotPreComplete(s.options[i])
         /\ Cardinality({EntryLit(s.options[i], s.key) : i \in VariantKeyed(s)})
              = Len(s.options)
    [] s.type = "union" ->
         /\ ~hasPipe(s)
         /\ \A i \in 1..Len(s.options) :
              ValibotPreSome(s.options[i]) /\ ValibotPreComplete(s.options[i])
    [] s.type \in {"string", "number"} -> ~hasPipe(s)
    [] OTHER -> FALSE

(***************************************************************************)
(* compileMatcher: the first applicable layer wins.                        *)
(***************************************************************************)
\* compileLiteralMatcher returns a matcher (not null)
compileLiteralMatcher(s) ==
  \/ s.fam = "arktype" /\ s.type = "unit" /\ s.xf = "none"
  \/ s.fam = "valibot" /\ s.type = "literal"
  \/ s.fam = "zod" /\ s.type = "literal"

LiteralAttempt(s, v) == IF ObjectIs(v, s.lit) THEN Matched(P(s.lit)) ELSE NO_MATCH

\* compileFastCheckMatcher without its isPromiseLike test: a pending result is truthy
FastCheckUnchecked(s, v) ==
  IF s.async \/ PredHolds(s.pred, v) THEN Matched(v) ELSE NO_MATCH

\* compileFastCheckMatcher: sync
FastCheckSync(s, v) ==
  IF s.async THEN ASYNC_REQUIRED
  ELSE IF PredHolds(s.pred, v) THEN Matched(v) ELSE NO_MATCH

\* compileFastCheckMatcher: async, settled
FastCheckAsync(s, v) == IF PredHolds(s.pred, v) THEN Matched(v) ELSE NO_MATCH

\* compileGenericMatcher: sync
GenericSync(s, v) ==
  IF s.async THEN ASYNC_REQUIRED
  ELSE IF Validate(s, v).ok THEN Matched(Validate(s, v).v) ELSE NO_MATCH

\* compileGenericMatcher: async, settled
GenericAsync(s, v) == IF Validate(s, v).ok THEN Matched(Validate(s, v).v) ELSE NO_MATCH

\* _zod.run(payload, ctx): the payload it hands back, {value, issues}
ZodPayload(s, v) ==
  [value |-> IF ZodRun(s, v).ok THEN ZodRun(s, v).v ELSE v,
   issues |-> IF ZodRun(s, v).ok THEN 0 ELSE 1]

\* compileZodMatcher: sync
ZodSync(s, v) ==
  IF ZodPreSome(s) /\ ZodPreComplete(s)
  THEN (IF ZodPreCheck(s, v) THEN Matched(v) ELSE NO_MATCH)
  ELSE IF ZodPreSome(s) /\ ~ZodPreCheck(s, v) THEN NO_MATCH
  ELSE IF s.async THEN ASYNC_REQUIRED
  ELSE IF ZodPayload(s, v).issues = 0 THEN Matched(ZodPayload(s, v).value)
  ELSE NO_MATCH

\* compileValibotMatcher: sync
ValibotSync(s, v) ==
  IF ValibotPreSome(s) /\ ValibotPreComplete(s) /\ ~s.async
  THEN (IF ValibotPreCheck(s, v) THEN Matched(v) ELSE NO_MATCH)
  ELSE IF s.async THEN ASYNC_REQUIRED
  ELSE IF ValibotPreSome(s) /\ ~ValibotPreCheck(s, v) THEN NO_MATCH
  ELSE IF ValibotRun(s, v).ok THEN Matched(ValibotRun(s, v).v)
  ELSE NO_MATCH

\* compileValibotMatcher: async, settled
ValibotAsync(s, v) ==
  IF ValibotPreSome(s) /\ ValibotPreComplete(s) /\ ~s.async
  THEN (IF ValibotPreCheck(s, v) THEN Matched(v) ELSE NO_MATCH)
  ELSE IF ValibotPreSome(s) /\ ~ValibotPreCheck(s, v) THEN NO_MATCH
  ELSE IF ValibotRun(s, v).ok THEN Matched(ValibotRun(s, v).v)
  ELSE NO_MATCH

\* allows(value) of an arktype type
Allows(s, v) == IF s.type = "unit" THEN ObjectIs(v, s.lit) ELSE PredHolds(s.pred, v)

\* compileArktypeMatcher: sync and, settled, async (an arktype type is callable)
ArktypeAttempt(s, v) ==
  IF ~Allows(s, v) THEN NO_MATCH
  ELSE IF s.xf = "none" THEN Matched(v)
  ELSE IF ArkCall(s, v).ok THEN Matched(ArkCall(s, v).v)
  ELSE NO_MATCH

\* getCompiledMatcher(schema).sync(value)
matchSchemaSync(s, v) ==
  CASE compileLiteralMatcher(s) -> LiteralAttempt(s, v)
    [] ~compileLiteralMatcher(s) /\ s.fam = "fastcheck" -> FastCheckSync(s, v)
    [] ~compileLiteralMatcher(s) /\ s.fam = "zod" -> ZodSync(s, v)
    [] ~compileLiteralMatcher(s) /\ s.fam = "valibot" -> ValibotSync(s, v)
    [] ~compileLiteralMatcher(s) /\ s.fam = "arktype" -> ArktypeAttempt(s, v)
    [] OTHER -> GenericSync(s, v)

\* the schema compiles to the zod matcher that calls _zod.run on its payloads
usesPayload(s) ==
  /\ ~compileLiteralMatcher(s)
  /\ s.fam = "zod"
  /\ ~(ZodPreSome(s) /\ ZodPreComplete(s))

\* compileZodMatcher: async, run by one caller alone
ZodAsync(s, v) ==
  IF ZodPreSome(s) /\ ZodPreComplete(s)
  THEN (IF ZodPreCheck(s, v) THEN Matched(v) ELSE NO_MATCH)
  ELSE IF ZodPreSome(s) /\ ~ZodPreCheck(s, v) THEN NO_MATCH
  ELSE IF ZodPayload(s, v).issues = 0 THEN Matched(ZodPayload(s, v).value)
  ELSE NO_MATCH

\* getCompiledMatcher(schema).async(value), settled, run by one caller alone
matchSchemaAsync(s, v) ==
  CASE compileLiteralMatcher(s) -> LiteralAttempt(s, v)
    [] ~compileLiteralMatcher(s) /\ s.fam = "fastcheck" -> FastCheckAsync(s, v)
    [] ~compileLiteralMatcher(s) /\ s.fam = "zod" -> ZodAsync(s, v)
    [] ~compileLiteralMatcher(s) /\ s.fam = "valibot" -> ValibotAsync(s, v)
    [] ~compileLiteralMatcher(s) /\ s.fam = "arktype" -> ArktypeAttempt(s, v)
    [] OTHER -> GenericAsync(s, v)

(***************************************************************************)
(* Clauses of a reusable matcher.                                          *)
(*   kind "case": schemas, an optional guard ("none": no guard), a handler *)
(*   kind "when": a bare predicate and a handler                           *)
(*   h: the handler returns its first argument ("sync") or a pending       *)
(*      computation ("async")                                              *)
(***************************************************************************)
CaseClause(schemas, guard, h) ==
  [kind |-> "case", schemas |-> schemas, guard |-> guard, when |-> "none", h |-> h]

WhenClause(pred, h) ==
  [kind |-> "when", schemas |-> <<>>, guard |-> "none", when |-> pred, h |-> h]

\* clause.predicate(result, input): "truthy", "falsy" or a "promise"
GuardResult(id, value, input) ==
  CASE id = "true" -> "truthy"
    [] id = "false" -> "falsy"
    [] id = "isN5" -> IF value = P("n5") THEN "truthy" ELSE "falsy"
    [] id = "promise" -> "promise"
    [] OTHER -> "truthy"

\* clause.when(input)
WhenResult(id, input) ==
  IF id = "promise" THEN "promise"
  ELSE IF PredHolds(id, input) THEN "truthy" ELSE "falsy"

\* clause.handler(value, input)
HandlerResult(h, value, input) == IF h = "async" THEN Pending ELSE value

Ev(op, i, j, v1, v2) == [op |-> op, i |-> i, j |-> j, v1 |-> v1, v2 |-> v2]

ClauseNull(log) == [res |-> "null", value |-> NoVal, err |-> "none", log |-> log]

ClauseThrow(err, log) == [res |-> "throw", value |-> NoVal, err |-> err, log |-> log]

ClauseMatched(value, log) == [res |-> "matched", value |-> value, err |-> "none", log |-> log]

\* execClause giving up on the clause after its first schema
execSchemasFirstOnly(clause, input, i, j, log) ==
  IF j > Len(clause.schemas) THEN ClauseNull(log)
  ELSE
    LET result == matchSchemaSync(clause.schemas[j], input)
        log1 == Append(log, Ev("validate", i, j, input, NoVal))
        g == GuardResult(clause.guard, result.v, input)
        log2 == IF clause.guard = "none" THEN log1
                ELSE Append(log1, Ev("guard", i, j, result.v, input))
    IN
    IF result = NO_MATCH THEN ClauseNull(log1)
    ELSE IF result = ASYNC_REQUIRED THEN ClauseThrow("schema-promise", log1)
    ELSE IF clause.guard # "none" /\ g = "promise" THEN ClauseThrow("guard-promise", log2)
    ELSE IF clause.guard # "none" /\ g = "falsy" THEN ClauseNull(log2)
    ELSE ClauseMatched(HandlerResult(clause.h, result.v, input),
                       Append(log2, Ev("handler", i, j, result.v, input)))

\* execClause calling the handler whatever the guard said
RECURSIVE execSchemasGuardIgnored(_, _, _, _, _)
execSchemasGuardIgnored(clause, input, i, j, log) ==
  IF j > Len(clause.schemas) THEN ClauseNull(log)
  ELSE
    LET result == matchSchemaSync(clause.schemas[j], input)
        log1 == Append(log, Ev("validate", i, j, input, NoVal))
        g == GuardResult(clause.guard, result.v, input)
        log2 == IF clause.guard = "none" THEN log1
                ELSE Append(log1, Ev("guard", i, j, result.v, input))
    IN
    IF result = NO_MATCH THEN execSchemasGuardIgnored(clause, input, i, j + 1, log1)
    ELSE IF result = ASYNC_REQUIRED THEN ClauseThrow("schema-promise", log1)
    ELSE IF clause.guard # "none" /\ g = "promise" THEN ClauseThrow("guard-promise", log2)
    ELSE ClauseMatched(HandlerResult(clause.h, result.v, input),
                       Append(log2, Ev("handler", i, j, result.v, input)))

\* the schema loop of execClause, from schema j on
RECURSIVE execSchemas(_, _, _, _, _)
execSchemas(clause, input, i, j, log) ==
  IF j > Len(clause.schemas) THEN ClauseNull(log)
  ELSE
    LET result == matchSchemaSync(clause.schemas[j], input)
        log1 == Append(log, Ev("validate", i, j, input, NoVal))
    IN
    IF result = NO_MATCH THEN execSchemas(clause, input, i, j + 1, log1)
    ELSE IF result = ASYNC_REQUIRED THEN ClauseThrow("schema-promise", log1)
    ELSE
      LET g == GuardResult(clause.guard, result.v, input)
          log2 == IF clause.guard = "none" THEN log1
                  ELSE Append(log1, Ev("guard", i, j, result.v, input))
      IN
      IF clause.guard # "none" /\ g = "promise" THEN ClauseThrow("guard-promise", log2)
      ELSE IF clause.guard # "none" /\ g = "falsy"
      THEN execSchemas(clause, input, i, j + 1, log2)
      ELSE ClauseMatched(HandlerResult(clause.h, result.v, input),
                         Append(log2, Ev("handler", i, j, result.v, input)))

\* ReusableMatcher.execClause
execClause(clause, input, i, log) ==
  IF clause.kind = "when"
  THEN
    LET p == WhenResult(clause.when, input)
        log1 == Append(log, Ev("when", i, 0, input, NoVal))
    IN
    IF p = "promise" THEN ClauseThrow("predicate-promise", log1)
    ELSE IF p = "falsy" THEN ClauseNull(log1)
    ELSE ClauseMatched(HandlerResult(clause.h, input, input),
                       Append(log1, Ev("handler", i, 0, input, input)))
  ELSE execSchemas(clause, input, i, 1, log)

(***************************************************************************)
(* Discriminator extraction and the dispatch table.                        *)
(***************************************************************************)
PreferredKeys == <<"type", "kind", "status", "_tag", "tag">>

NoDisc == [some |-> FALSE, key |-> "", value |-> ""]

\* extractDiscriminator(validator) -> {key, value} | null
extractDiscriminator(s) ==
  IF ~(s.fam \in {"zod", "valibot"} /\ s.type = "object") THEN NoDisc
  ELSE
    LET lits == {i \in 1..Len(s.shape) : s.shape[i].s.type = "literal"}
        pref == {p \in 1..Len(PreferredKeys) :
                   \E i \in lits : s.shape[i].key = PreferredKeys[p]}
        pick ==
          IF pref # {}
          THEN CHOOSE i \in lits :
                 s.shape[i].key = PreferredKeys[CHOOSE p \in pref : \A q \in pref : p <= q]
          ELSE CHOOSE i \in lits : \A j \in lits : i <= j
    IN IF lits = {} THEN NoDisc
       ELSE [some |-> TRUE, key |-> s.shape[pick].key, value |-> s.shape[pick].s.lit]

\* the first discriminator among a clause's schemas (null for a .when() clause)
ClauseDisc(clause) ==
  LET hit == {j \in 1..Len(clause.schemas) : extractDiscriminator(clause.schemas[j]).some}
  IN IF clause.kind = "when" \/ hit = {} THEN NoDisc
     ELSE extractDiscriminator(clause.schemas[CHOOSE j \in hit : \A k \in hit : j <= k])

NoTable ==
  [some |-> FALSE, key |-> "", table |-> <<>>, fallback |-> <<>>, expectedValues |-> <<>>]

\* the indices of S in the order the clause loop pushes them (ascending)
RECURSIVE Pushed(_)
Pushed(S) ==
  IF S = {} THEN <<>>
  ELSE LET m == CHOOSE i \in S : \A j \in S : i <= j
       IN <<m>> \o Pushed(S \ {m})

\* the distinct discriminator values in first-seen order
RECURSIVE FirstSeen(_, _, _)
FirstSeen(discs, i, seen) ==
  IF i > Len(discs) THEN <<>>
  ELSE IF discs[i].some /\ discs[i].value \notin seen
  THEN <<discs[i].value>> \o FirstSeen(discs, i + 1, seen \cup {discs[i].value})
  ELSE FirstSeen(discs, i + 1, seen)

\* buildDispatchTable giving up at a clause without a discriminator
buildDispatchTableAborting(clauses) ==
  LET n == Len(clauses)
      discs == [i \in 1..n |-> ClauseDisc(clauses[i])]
      found == {i \in 1..n : discs[i].some}
      commonKey == discs[CHOOSE i \in found : \A j \in found : i <= j].key
      expected == FirstSeen(discs, 1, {})
      InBucket(val) == Pushed({i \in found : discs[i].value = val})
  IN
  IF n < 2 THEN NoTable
  ELSE IF found # 1..n THEN NoTable
  ELSE IF \E i \in found : discs[i].key # commonKey THEN NoTable
  ELSE [some |-> TRUE,
        key |-> commonKey,
        table |-> [e \in 1..Len(expected) |->
                     [value |-> expected[e], idxs |-> InBucket(expected[e])]],
        fallback |-> <<>>,
        expectedValues |-> expected]

\* buildDispatchTable(clauses) -> DispatchTable | null
buildDispatchTable(clauses) ==
  LET n == Len(clauses)
      discs == [i \in 1..n |-> ClauseDisc(clauses[i])]
      found == {i \in 1..n : discs[i].some}
      commonKey == discs[CHOOSE i \in found : \A j \in found : i <= j].key
      expected == FirstSeen(discs, 1, {})
      InBucket(val) == Pushed({i \in found : discs[i].value = val})
  IN
  IF n < 2 THEN NoTable
  ELSE IF found = {} THEN NoTable
  ELSE IF \E i \in found : discs[i].key # commonKey THEN NoTable
  ELSE [some |-> TRUE,
        key |-> commonKey,
        table |-> [e \in 1..Len(expected) |->
                     [value |-> expected[e], idxs |-> InBucket(expected[e])]],
        fallback |-> Pushed((1..n) \ found),
        expectedValues |-> expected]

Range(s) == {s[i] : i \in 1..Len(s)}

\* dispatch.table.get(value): the candidate indices (the empty set: undefined)
TableGet(dispatch, val) ==
  IF \E e \in 1..Len(dispatch.table) : dispatch.table[e].value = val
  THEN Range(dispatch.table[CHOOSE e \in 1..Len(dispatch.table) :
                              dispatch.table[e].value = val].idxs)
  ELSE {}

(***************************************************************************)
(* ReusableMatcher.exec                                                    *)
(***************************************************************************)
Unmatched(log) ==
  [matched |-> FALSE, value |-> NoVal, idx |-> 0, err |-> "none", log |-> log]

\* the clause loop of exec run from the last clause down to the first
RECURSIVE execLoopDescending(_, _, _, _, _)
execLoopDescending(clauses, input, i, allowed, log) ==
  LET k == Len(clauses) + 1 - i
  IN
  IF i > Len(clauses) THEN Unmatched(log)
  ELSE IF k \notin allowed THEN execLoopDescending(clauses, input, i + 1, allowed, log)
  ELSE
    LET r == execClause(clauses[k], input, k, log)
    IN
    IF r.res = "null" THEN execLoopDescending(clauses, input, i + 1, allowed, r.log)
    ELSE [matched |-> r.res = "matched", value |-> r.value,
          idx |-> IF r.res = "matched" THEN k ELSE 0, err |-> r.err, log |-> r.log]

\* the clause loop of exec over the indices in allowed, from clause i on
RECURSIVE execLoop(_, _, _, _, _)
execLoop(clauses, input, i, allowed, log) ==
  IF i > Len(clauses) THEN Unmatched(log)
  ELSE IF i \notin allowed THEN execLoop(clauses, input, i + 1, allowed, log)
  ELSE
    LET r == execClause(clauses[i], input, i, log)
    IN
    IF r.res = "null" THEN execLoop(clauses, input, i + 1, allowed, r.log)
    ELSE [matched |-> r.res = "matched", value |-> r.value,
          idx |-> IF r.res = "matched" THEN i ELSE 0, err |-> r.err, log |-> r.log]

\* exec without the dispatch path: every clause is a candidate
CandidatesLinear(clauses, dispatch, input) == 1..Len(clauses)

\* the clause indices exec tries for an input
Candidates(clauses, dispatch, input) ==
  IF dispatch.some /\ isPlainObject(input)
  THEN TableGet(dispatch, Field(input, dispatch.key)) \cup Range(dispatch.fallback)
  ELSE 1..Len(clauses)

exec(clauses, dispatch, input) ==
  execLoop(clauses, input, 1, Candidates(clauses, dispatch, input), <<>>)

(***************************************************************************)
(* Failure diagnostics (errors.ts, ReusableMatcher.buildMatchError and     *)
(* buildFailureResult).  The field atom "self" is a reference to the       *)
(* record that holds it; a record whose a is "bare" has no prototype.      *)
(***************************************************************************)
\* JSON.stringify(value) throws on a reference cycle
HasCycle(v) == v.k = "obj" /\ \E i \in 1..Len(v.f) : v.f[i] = "self"

\* String(value) throws for a record with no toString to call
StringThrows(v) == v.k = "obj" /\ v.a = "bare"

Shown(how, v) == [ok |-> TRUE, how |-> how, of |-> v]

NotShown == [ok |-> FALSE, how |-> "thrown", of |-> NoVal]

\* displayValue(value): the JSON text, else String(value), else the throw
displayValue(v) ==
  IF ~HasCycle(v) THEN Shown("json", v)
  ELSE IF StringThrows(v) THEN NotShown
  ELSE Shown("string", NoVal)

\* displayValue of the value read from input under a key
displayField(input, a) == IF a = "self" THEN displayValue(input) ELSE Shown("json", P(a))

\* new NonExhaustiveError(input): the template literal converts the input
\* itself when JSON.stringify threw
NonExhaustiveError(input) ==
  IF ~HasCycle(input) THEN Shown("json", input)
  ELSE IF StringThrows(input) THEN NotShown
  ELSE Shown("string", NoVal)

\* idxs.flatMap(i => 'schemas' in clauses[i] ? clauses[i].schemas : []); each
\* entry remembers the clause and position it came from
RECURSIVE flatSchemas(_, _)
flatSchemas(clauses, idxs) ==
  IF idxs = <<>> THEN <<>>
  ELSE
    LET i == Head(idxs)
        c == clauses[i]
    IN (IF c.kind = "when" THEN <<>>
        ELSE [j \in 1..Len(c.schemas) |-> [s |-> c.schemas[j], clause |-> i, j |-> j]])
       \o flatSchemas(clauses, Tail(idxs))

\* this.clauses.flatMap(c => 'schemas' in c ? c.schemas : [])
allSchemas(clauses) == flatSchemas(clauses, [i \in 1..Len(clauses) |-> i])

NoDiscriminator ==
  [some |-> FALSE, key |-> "", value |-> "", expected |-> <<>>, matched |-> FALSE]

\* the issues of one rejecting schema, tagged `Case ${i + 1}` with i its
\* index in the list handed to the loop
CaseIssue(n, entry) ==
  [kind |-> "case", case |-> n, s |-> entry.s, clause |-> entry.clause, j |-> entry.j,
   names |-> NoDiscriminator]

\* {message: formatNoMatchMessage(input)}
GenericIssue ==
  [kind |-> "generic", case |-> 0, s |-> S0, clause |-> 0, j |-> 0,
   names |-> NoDiscriminator]

\* the issue of a discriminator miss: its message names disc.key, disc.value
\* and disc.expected
DiscriminatorIssue(disc) ==
  [kind |-> "discriminator", case |-> 0, s |-> S0, clause |-> 0, j |-> 0, names |-> disc]

\* validateSync(schema, input) throws when validation returns a promise
validateSyncThrows(s) == s.async

\* the loop over the schemas, left at the first schema that rejects
RECURSIVE revalidateFirstOnly(_, _, _)
revalidateFirstOnly(schemas, input, n) ==
  IF n > Len(schemas) THEN <<>>
  ELSE IF ~validateSyncThrows(schemas[n].s) /\ ~Validate(schemas[n].s, input).ok
  THEN <<CaseIssue(n, schemas[n])>>
  ELSE revalidateFirstOnly(schemas, input, n + 1)

\* the loop over the schemas: one issue group per schema that rejects
RECURSIVE revalidate(_, _, _)
revalidate(schemas, input, n) ==
  IF n > Len(schemas) THEN <<>>
  ELSE (IF ~validateSyncThrows(schemas[n].s) /\ ~Validate(schemas[n].s, input).ok
        THEN <<CaseIssue(n, schemas[n])>> ELSE <<>>)
       \o revalidate(schemas, input, n + 1)

\* analyzeFailure without the early return of a discriminator miss
analyzeFailureNoShortcut(input, options) ==
  LET found == revalidate(options.schemas, input, 1)
  IN
  IF Len(found) = 0
  THEN [issues |-> <<GenericIssue>>, validated |-> options.schemas,
        threw |-> ~displayValue(input).ok]
  ELSE [issues |-> found, validated |-> options.schemas, threw |-> FALSE]

\* analyzeFailure(input, options): the issues, the schemas handed to
\* validateSync, and whether a displayValue of it threw
analyzeFailure(input, options) ==
  LET found == revalidate(options.schemas, input, 1)
  IN
  IF Len(options.schemas) = 0
  THEN [issues |-> <<GenericIssue>>, validated |-> <<>>, threw |-> ~displayValue(input).ok]
  ELSE IF options.discriminator.some /\ ~options.discriminator.matched
  THEN [issues |-> <<DiscriminatorIssue(options.discriminator)>>, validated |-> <<>>,
        threw |-> ~displayField(input, options.discriminator.value).ok]
  ELSE IF Len(found) = 0
  THEN [issues |-> <<GenericIssue>>, validated |-> options.schemas,
        threw |-> ~displayValue(input).ok]
  ELSE [issues |-> found, validated |-> options.schemas, threw |-> FALSE]

NoDiag ==
  [built |-> FALSE, threw |-> FALSE, input |-> NoVal, issues |-> <<>>, schemas |-> <<>>,
   discriminator |-> NoDiscriminator, validated |-> <<>>, message |-> NotShown]

\* the construction of the diagnostic threw: no error object exists
DiagThrown == [NoDiag EXCEPT !.built = TRUE, !.threw = TRUE]

\* new MatchError(input, options)
MatchError(input, options) ==
  LET analysis == analyzeFailure(input, options)
      \* buildErrorMessage: the input, then the discriminator value
      message == displayValue(input)
      discShown == ~options.discriminator.some
                     \/ displayField(input, options.discriminator.value).ok
  IN
  IF analysis.threw \/ ~message.ok \/ ~discShown THEN DiagThrown
  ELSE [built |-> TRUE, threw |-> FALSE, input |-> input, issues |-> analysis.issues,
        schemas |-> options.schemas, discriminator |-> options.discriminator,
        validated |-> analysis.validated, message |-> message]

\* buildMatchError without the narrowing to the candidates' schemas
buildMatchErrorNoNarrow(clauses, dispatch, input) ==
  LET discValue == IF isPlainObject(input) THEN Field(input, dispatch.key) ELSE "undef"
      candidates == IF isPlainObject(input) THEN TableGet(dispatch, discValue) ELSE {}
  IN
  IF ~dispatch.some
  THEN MatchError(input, [schemas |-> allSchemas(clauses), discriminator |-> NoDiscriminator])
  ELSE MatchError(input,
         [schemas |-> allSchemas(clauses),
          discriminator |-> [some |-> TRUE, key |-> dispatch.key, value |-> discValue,
                             expected |-> dispatch.expectedValues,
                             matched |-> candidates # {}]])

\* ReusableMatcher.buildMatchError
buildMatchError(clauses, dispatch, input) ==
  LET discValue == IF isPlainObject(input) THEN Field(input, dispatch.key) ELSE "undef"
      candidates == IF isPlainObject(input) THEN TableGet(dispatch, discValue) ELSE {}
      matched == candidates # {}
  IN
  IF ~dispatch.some
  THEN MatchError(input, [schemas |-> allSchemas(clauses), discriminator |-> NoDiscriminator])
  ELSE MatchError(input,
         [schemas |-> IF matched THEN flatSchemas(clauses, Pushed(candidates))
                      ELSE allSchemas(clauses),
          discriminator |-> [some |-> TRUE, key |-> dispatch.key, value |-> discValue,
                             expected |-> dispatch.expectedValues, matched |-> matched]])

\* buildFailureResult without the issue pushed when no schema yields one
buildFailureResultNoFallback(clauses, value) ==
  [NoDiag EXCEPT !.built = TRUE,
                 !.issues = revalidate(allSchemas(clauses), value, 1),
                 !.validated = allSchemas(clauses)]

\* ReusableMatcher.buildFailureResult
buildFailureResult(clauses, value) ==
  LET found == revalidate(allSchemas(clauses), value, 1)
  IN
  IF Len(found) = 0 /\ HasCycle(value) /\ StringThrows(value) THEN DiagThrown
  ELSE [NoDiag EXCEPT !.built = TRUE,
                      !.issues = IF Len(found) = 0 THEN <<GenericIssue>> ELSE found,
                      !.validated = allSchemas(clauses),
                      !.message = IF Len(found) = 0 THEN displayValue(value) ELSE NotShown]

(***************************************************************************)
(* The validators and inputs the model runs on.                            *)
(***************************************************************************)
zLit(l) == [S0 EXCEPT !.fam = "zod", !.type = "literal", !.lit = l]

zStr == [S0 EXCEPT !.fam = "zod", !.type = "string"]

zNum == [S0 EXCEPT !.fam = "zod", !.type = "number"]

zObj(shape) == [S0 EXCEPT !.fam = "zod", !.type = "object", !.shape = shape]

zTuple(items) == [S0 EXCEPT !.fam = "zod", !.type = "tuple", !.items = items]

zTupleRest(items, r) ==
  [S0 EXCEPT !.fam = "zod", !.type = "tuple", !.items = items, !.rest = TRUE,
             !.options = <<r>>]

zUnion(opts) == [S0 EXCEPT !.fam = "zod", !.type = "union", !.options = opts]

zOptional(s) == [S0 EXCEPT !.fam = "zod", !.type = "optional", !.items = <<s>>]

zArray(s) == [S0 EXCEPT !.fam = "zod", !.type = "array", !.items = <<s>>]

\* schema.transform(fn): a pipe whose out is the transform
zTransform(s, xf) == [S0 EXCEPT !.fam = "zod", !.type = "pipe", !.items = <<s>>, !.xf = xf]

\* schema.refine(fn): the same node with a check in def.checks
zRefine(s, id) == [s EXCEPT !.checks = id]

vLit(l) == [S0 EXCEPT !.fam = "valibot", !.type = "literal", !.lit = l]

vStr == [S0 EXCEPT !.fam = "valibot", !.type = "string"]

vNum == [S0 EXCEPT !.fam = "valibot", !.type = "number"]

vObj(shape) == [S0 EXCEPT !.fam = "valibot", !.type = "object", !.shape = shape]

vTuple(items) == [S0 EXCEPT !.fam = "valibot", !.type = "tuple", !.items = items]

vVariant(key, opts) ==
  [S0 EXCEPT !.fam = "valibot", !.type = "variant", !.key = key, !.options = opts]

vUnion(opts) == [S0 EXCEPT !.fam = "valibot", !.type = "union", !.options = opts]

vOptional(s) == [S0 EXCEPT !.fam = "valibot", !.type = "optional", !.items = <<s>>]

\* v.pipe(schema, v.check(fn)): the schema's own properties plus a pipe
vCheck(s, id) == [s EXCEPT !.checks = id]

\* v.pipe(schema, v.transform(fn))
vTransform(s, xf) == [s EXCEPT !.xf = xf]

\* an async valibot schema (async: true)
vAsync(s) == [s EXCEPT !.async = TRUE]

arkUnit(l) == [S0 EXCEPT !.fam = "arktype", !.type = "unit", !.lit = l]

ark(pred) == [S0 EXCEPT !.fam = "arktype", !.type = "ark", !.pred = pred]

\* an arktype morph (includesTransform)
arkMorph(s, xf) == [s EXCEPT !.xf = xf]

\* tests/helpers makeSchema / makeAsyncSchema
makeSchema(pred) == [S0 EXCEPT !.fam = "fastcheck", !.pred = pred]

makeAsyncSchema(pred) == [S0 EXCEPT !.fam = "fastcheck", !.pred = pred, !.async = TRUE]

\* a validator with nothing but ~standard.validate
plain(pred, xf) == [S0 EXCEPT !.pred = pred, !.xf = xf]

plainAsync(pred) == [S0 EXCEPT !.pred = pred, !.async = TRUE]

E(key, s) == [key |-> key, s |-> s]

SchemaCatalogue ==
  { zLit("sa"), zRefine(zLit("sa"), "never"), zStr, zRefine(zStr, "isSa"),
    zTransform(zStr, "upper"), zNum,
    zObj(<<E("type", zLit("sa")), E("x", zNum)>>),
    zObj(<<E("type", zLit("sa")), E("x", zRefine(zStr, "isSa"))>>),
    zObj(<<E("type", zLit("sa")), E("x", zTransform(zStr, "upper"))>>),
    zObj(<<E("type", zLit("sa")), E("x", zOptional(zNum))>>),
    zTuple(<<zStr, zNum>>), zTuple(<<zStr, zOptional(zNum)>>),
    zTupleRest(<<zStr>>, zNum), zTuple(<<zTransform(zStr, "upper")>>),
    zUnion(<<zStr, zNum>>), zUnion(<<zStr, zArray(zNum)>>),
    zRefine(zUnion(<<zStr, zLit("n5")>>), "isSa"),
    vLit("sa"), vTransform(vLit("sa"), "upper"), vCheck(vLit("sa"), "never"),
    vStr, vCheck(vStr, "isSa"), vTransform(vStr, "upper"), vNum,
    vObj(<<E("type", vLit("sa")), E("x", vNum)>>),
    vObj(<<E("type", vLit("sa")), E("x", vTransform(vStr, "upper"))>>),
    vTuple(<<vStr, vNum>>), vTuple(<<vStr, vOptional(vNum)>>),
    vVariant("type", <<vObj(<<E("type", vLit("sa")), E("x", vNum)>>),
                       vObj(<<E("type", vLit("sb"))>>)>>),
    vVariant("type", <<vObj(<<E("type", vLit("sa")), E("x", vNum)>>),
                       vObj(<<E("type", vLit("sa")), E("x", vStr)>>)>>),
    vVariant("type", <<vObj(<<E("type", vLit("sa"))>>),
                       vObj(<<E("type", vStr), E("x", vNum)>>)>>),
    vUnion(<<vStr, vNum>>), vUnion(<<vStr, vOptional(vNum)>>),
    vAsync(vCheck(vStr, "isSa")),
    arkUnit("sa"), arkMorph(arkUnit("sa"), "upper"), ark("isString"),
    arkMorph(ark("isString"), "upper"),
    makeSchema("isNumber"), makeAsyncSchema("isNumber"),
    plain("isString", "none"), plain("isString", "upper"), plainAsync("isNumber") }

CompileInputs ==
  { P("n1"), P("n5"), P("nan"), P("sa"), P("sb"), P("undef"),
    Obj("sa", "undef", "n1"), Obj("sa", "undef", "sa"), Obj("sa", "undef", "undef"),
    Obj("sb", "undef", "n1"), Obj("sa", "sa", "n1"),
    Arr(<<>>), Arr(<<"sa">>), Arr(<<"sa", "n1">>), Arr(<<"sa", "n1", "n5">>),
    Arr(<<"n1">>) }

\* the validators of the reusable matchers the executor is run on
zObjA == zObj(<<E("type", zLit("sa"))>>)

zObjB == zObj(<<E("type", zLit("sb"))>>)

zObjKind == zObj(<<E("kind", zLit("sa"))>>)

zObjX == zObj(<<E("x", zNum)>>)

CaseCatalogue ==
  { CaseClause(<<zObjA>>, "none", "sync"), CaseClause(<<zObjB>>, "none", "sync"),
    CaseClause(<<zObjKind>>, "none", "sync"), CaseClause(<<zObjX>>, "none", "sync"),
    CaseClause(<<makeSchema("isNumber")>>, "none", "sync"),
    CaseClause(<<makeAsyncSchema("isNumber")>>, "none", "sync"),
    CaseClause(<<zObjA, zObjB>>, "none", "sync"),
    CaseClause(<<plain("isString", "upper"), plain("isString", "none")>>, "isSa", "sync"),
    CaseClause(<<makeSchema("isNumber")>>, "isN5", "sync"),
    CaseClause(<<makeSchema("isNumber")>>, "promise", "sync"),
    CaseClause(<<zObjA>>, "false", "sync"),
    CaseClause(<<makeSchema("isNumber")>>, "none", "async") }

WhenCatalogue ==
  { WhenClause("isNumber", "sync"), WhenClause("typeSa", "sync"),
    WhenClause("promise", "sync") }

Inputs ==
  { P("n1"), P("n5"), P("sa"),
    Obj("sa", "undef", "undef"), Obj("sb", "undef", "undef"),
    Obj("sa", "sa", "n1"), Obj("undef", "sa", "undef") }

\* the clauses and inputs of the matchers run by concurrent callers
AsyncCatalogue ==
  { CaseClause(<<zRefine(zStr, "isSa")>>, "none", "sync"),
    CaseClause(<<zTransform(zStr, "upper")>>, "none", "sync"),
    CaseClause(<<zRefine(zStr, "never"), zStr>>, "none", "async"),
    CaseClause(<<makeAsyncSchema("isNumber")>>, "isN5", "sync"),
    WhenClause("isN5", "sync") }

AsyncInputs == { P("sa"), P("sb"), P("n1"), P("n5") }

\* {type: 'sa', x: number} and {type: 'sb', x: number}
zObjAX == zObj(<<E("type", zLit("sa")), E("x", zNum)>>)

zObjBX == zObj(<<E("type", zLit("sb")), E("x", zNum)>>)

\* a record that refers to itself: const o = {}; o.x = o
Cyclic == Obj("undef", "undef", "self")

\* the same on a record made by Object.create(null)
BareCyclic == [Obj("undef", "undef", "self") EXCEPT !.a = "bare"]

\* the clauses and inputs of the matchers whose failure diagnostics are built
DiagCatalogue ==
  { CaseClause(<<zObjAX>>, "none", "sync"), CaseClause(<<zObjBX>>, "none", "sync"),
    CaseClause(<<zObjBX, zObjKind>>, "none", "sync"),
    CaseClause(<<zStr, zNum>>, "none", "sync"),
    CaseClause(<<makeSchema("isObject")>>, "false", "sync") }

DiagWhenCatalogue == { WhenClause("isN5", "sync") }

DiagInputs ==
  { Obj("sa", "undef", "n1"), Obj("sa", "undef", "sa"), Obj("sb", "undef", "undef"),
    Obj("SA", "undef", "n1"), P("undef"), Arr(<<>>), Cyclic, BareCyclic,
    Obj("self", "undef", "self") }

\* the clauses and inputs of the matchers whose diagnostics meet a validator
\* that cannot be run synchronously: v.pipeAsync(v.literal('sa'), ...) is
\* matched by its literal alone, makeAsyncSchema only by awaiting it
SkipCatalogue ==
  { CaseClause(<<vAsync(vCheck(vLit("sa"), "isSa"))>>, "none", "sync"),
    CaseClause(<<makeAsyncSchema("isNumber")>>, "none", "sync"),
    CaseClause(<<zStr, zNum>>, "none", "sync"),
    CaseClause(<<zObjAX>>, "none", "sync"),
    CaseClause(<<zObjBX, makeAsyncSchema("isNumber")>>, "none", "sync") }

SkipInputs ==
  { P("undef"), P("sb"), Obj("sa", "undef", "sa"), Obj("sb", "undef", "undef"),
    BareCyclic }

MaxClauses == 3

MaxInstances == 3

MaxMatchers == 3

(***************************************************************************)
(* The compiled-matcher cache.  A validator instance is an object with an  *)
(* own literal, a prototype (0: none), a frozen flag and the hidden        *)
(* compiledMatcherSymbol slot; a compiled matcher remembers the instance   *)
(* it was compiled from, the literal it closed over and which run of       *)
(* compileMatcher on that instance made it.                                *)
(***************************************************************************)
Instances == 1..MaxInstances

NoMatcher == [from |-> 0, lit |-> "", n |-> 0]

NoObj == [live |-> FALSE, lit |-> "", proto |-> 0, frozen |-> FALSE, slot |-> NoMatcher]

NoRet ==
  [inst |-> 0, matcher |-> NoMatcher, compiled |-> FALSE, result |-> NO_MATCH,
   arg |-> "schema", error |-> "none"]

EmptyCache ==
  [objs |-> [x \in Instances |-> NoObj], weak |-> [x \in Instances |-> NoMatcher],
   compiles |-> [x \in Instances |-> 0], ret |-> NoRet]

\* schemaObject[compiledMatcherSymbol]: an own slot, or one found on the prototype chain
RECURSIVE symbolCached(_, _)
symbolCached(objs, x) ==
  IF objs[x].slot # NoMatcher THEN objs[x].slot
  ELSE IF objs[x].proto # 0 THEN symbolCached(objs, objs[x].proto)
  ELSE NoMatcher

\* compileMatcher(schema): here the literal matcher, closing over schema.literal
compileMatcher(c, x) == [from |-> x, lit |-> c.objs[x].lit, n |-> c.compiles[x] + 1]

\* getCompiledMatcher(schema): the cache after the call, ret.matcher the matcher returned
getCompiledMatcher(c, x) ==
  IF symbolCached(c.objs, x) # NoMatcher
  THEN [c EXCEPT !.ret = [NoRet EXCEPT !.inst = x, !.matcher = symbolCached(c.objs, x)]]
  ELSE IF c.weak[x] # NoMatcher
  THEN [c EXCEPT !.ret = [NoRet EXCEPT !.inst = x, !.matcher = c.weak[x]]]
  ELSE [c EXCEPT !.compiles[x] = @ + 1,
                 !.objs[x].slot = IF c.objs[x].frozen THEN @ ELSE compileMatcher(c, x),
                 !.weak[x] = IF c.objs[x].frozen THEN compileMatcher(c, x) ELSE @,
                 !.ret = [NoRet EXCEPT !.inst = x, !.matcher = compileMatcher(c, x),
                                       !.compiled = TRUE]]

Literals == {"sa", "sb"}

\* values handed over as a clause schema that have no `~standard` property
NonSchemas == {"object", "function", "null", "undefined"}

\* schemaObject[compiledMatcherSymbol]: reading a property of null or
\* undefined throws
slotReadThrows(kind) == kind \in {"null", "undefined"}

\* getCompiledMatcher(schema) on such a value: the throw of the slot read,
\* else (no slot, no side-table entry) compileMatcher's assertStandardSchema
rejectNonSchema(kind) ==
  IF slotReadThrows(kind)
  THEN [NoRet EXCEPT !.arg = kind, !.error = "TypeError: Cannot read properties"]
  ELSE [NoRet EXCEPT !.arg = kind, !.error = "Expected a Standard Schema value"]

(***************************************************************************)
(* State.                                                                  *)
(*   clauses   the clause list of the reusable matcher in hand             *)
(*   dispatch  its cached dispatch table ([built |-> FALSE]: not computed) *)
(*   last      the last call of the function default(handler) returned     *)
(*   procs     the calls of the function defaultAsync(handler) returned    *)
(*             that are in flight, each at its await point                 *)
(*   asyncPayload  per compiled zod matcher, its reused {value, issues}    *)
(*   cache     the validator instances in existence, each with its hidden  *)
(*             compiled-matcher slot, the identity-keyed side table, the   *)
(*             runs of compileMatcher per instance and the last call       *)
(*   matchers  the reusable matchers a program holds at once, in the order *)
(*             of their construction                                       *)
(***************************************************************************)
VARIABLES clauses, dispatch, last, procs, asyncPayload, cache, matchers

vars == <<clauses, dispatch, last, procs, asyncPayload, cache, matchers>>

Procs == {1, 2}

IdleProc ==
  [pc |-> "idle", input |-> NoVal, i |-> 0, j |-> 0, alias |-> FALSE, own |-> NoVal,
   log |-> <<>>, out |-> Unmatched(<<>>)]

\* the compiled zod matchers of the catalogue that own an asyncPayload
PayloadSchemas ==
  {s \in UNION {Range(c.schemas) : c \in AsyncCatalogue} : usesPayload(s)}

\* const asyncPayload = {value: undefined, issues: []}
EmptyPayload == [value |-> P("undef"), issues |-> 0]

Quiet == \A p \in Procs : procs[p].pc \in {"idle", "done"}

NotBuilt == [built |-> FALSE, d |-> NoTable]

(***************************************************************************)
(* The fallback handler of default(handler) and its context.  A handler is *)
(* known by the number of times it reads context.error and by what it does *)
(* with it: match.throw throws it, "error" returns it, "twice" reads it    *)
(* twice and returns it, "ignore" never reads it and returns its own       *)
(* value.                                                                  *)
(***************************************************************************)
Handlers == {"match.throw", "error", "twice", "ignore"}

Reads(h) == CASE h = "ignore" -> 0 [] h = "twice" -> 2 [] OTHER -> 1

\* let error: MatchError | undefined, with what the reads of it did
NoContext ==
  [error |-> NoDiag, builds |-> 0, passes |-> <<>>, got |-> <<>>, threw |-> FALSE]

\* a getter of context.error that builds the error at every read
getErrorNoMemo(ctx, built) ==
  IF built.threw THEN [ctx EXCEPT !.builds = @ + 1, !.threw = TRUE]
  ELSE [ctx EXCEPT !.error = built, !.builds = @ + 1,
                   !.passes = Append(@, built.validated),
                   !.got = Append(@, ctx.builds + 1)]

\* get error() { if (!error) error = buildError(); return error }: built is
\* what buildError() makes; got lists, per read, the build that made the
\* object returned
getError(ctx, built) ==
  IF ctx.error.built THEN [ctx EXCEPT !.got = Append(@, ctx.builds)]
  ELSE IF built.threw THEN [ctx EXCEPT !.builds = @ + 1, !.threw = TRUE]
  ELSE [ctx EXCEPT !.error = built, !.builds = @ + 1,
                   !.passes = Append(@, built.validated),
                   !.got = Append(@, ctx.builds + 1)]

\* the reads of context.error a handler makes, up to one that throws
RECURSIVE readError(_, _, _)
readError(ctx, built, k) ==
  IF k = 0 \/ ctx.threw THEN ctx
  ELSE readError(getError(ctx, built), built, k - 1)

NoFallback ==
  [handler |-> "none", calls |-> 0, input |-> NoVal, context |-> NoContext,
   how |-> "none", what |-> "none"]

\* handler(context): how the call ends and with what
handlerOutcome(h, state, ctx) ==
  IF ctx.threw THEN [NoFallback EXCEPT !.how = "throw", !.what = "TypeError"]
  ELSE IF h = "match.throw" THEN [NoFallback EXCEPT !.how = "throw", !.what = "MatchError"]
  ELSE IF h = "ignore" THEN [NoFallback EXCEPT !.how = "return", !.what = "fallback"]
  ELSE [NoFallback EXCEPT !.how = "return", !.what = "MatchError"]

\* the body of a default(handler) that calls its handler whatever exec found
runFallbackAlways(h, state, input, built) ==
  [handlerOutcome(h, state, readError(NoContext, built, Reads(h)))
     EXCEPT !.handler = h, !.calls = 1, !.input = input,
            !.context = readError(NoContext, built, Reads(h))]

\* the body of the function default(handler) returns, after exec
runFallback(h, state, input, built) ==
  IF state.err # "none" THEN [NoFallback EXCEPT !.handler = h, !.how = "throw", !.what = "Error"]
  ELSE IF state.matched
  THEN [NoFallback EXCEPT !.handler = h, !.how = "return", !.what = "clause"]
  ELSE [handlerOutcome(h, state, readError(NoContext, built, Reads(h)))
          EXCEPT !.handler = h, !.calls = 1, !.input = input,
                 !.context = readError(NoContext, built, Reads(h))]

NoCall ==
  [kind |-> "none", input |-> NoVal, state |-> Unmatched(<<>>), diag |-> NoDiag,
   fallback |-> NoFallback]

\* ReusableMatcher.getDispatch
getDispatch == IF dispatch.built THEN dispatch.d ELSE buildDispatchTable(clauses)

Init ==
  /\ clauses = <<>>
  /\ dispatch = NotBuilt
  /\ last = NoCall
  /\ procs = [p \in Procs |-> IdleProc]
  /\ asyncPayload = [s \in PayloadSchemas |-> EmptyPayload]
  /\ cache = EmptyCache
  /\ matchers = <<>>

\* match.case(schema, handler): a reusable matcher of one clause
MatchCase(s) ==
  /\ Quiet
  /\ clauses' = <<CaseClause(<<s>>, "none", "sync")>>
  /\ dispatch' = NotBuilt
  /\ last' = NoCall
  /\ procs' = [p \in Procs |-> IdleProc]
  /\ UNCHANGED <<asyncPayload, cache, matchers>>

\* ReusableMatcher.case: a new matcher whose clauses are these plus one
Case(c) ==
  /\ Quiet
  /\ Len(clauses) < MaxClauses
  /\ clauses' = Append(clauses, c)
  /\ dispatch' = NotBuilt
  /\ last' = NoCall
  /\ procs' = [p \in Procs |-> IdleProc]
  /\ UNCHANGED <<asyncPayload, cache, matchers>>

\* ReusableMatcher.when
When(c) ==
  /\ Quiet
  /\ Len(clauses) < MaxClauses
  /\ clauses' = Append(clauses, c)
  /\ dispatch' = NotBuilt
  /\ last' = NoCall
  /\ procs' = [p \in Procs |-> IdleProc]
  /\ UNCHANGED <<asyncPayload, cache, matchers>>

\* the MatchError that match.throw reads from context.error once exec is over
errorOf(state, d, input) ==
  IF state.matched \/ state.err # "none" THEN NoDiag
  ELSE buildMatchError(clauses, d, input)

\* the function returned by ReusableMatcher.default(handler), called on input;
\* diag is the error the handler got from context.error, if it read it
DefaultHandler(h, input) ==
  /\ Len(clauses) > 0
  /\ dispatch' = [built |-> TRUE, d |-> getDispatch]
  /\ \E state \in {exec(clauses, dispatch'.d, input)} :
       \E built \in {errorOf(state, dispatch'.d, input)} :
         \E fb \in {runFallback(h, state, input, built)} :
           last' = [kind |-> "sync", input |-> input, state |-> state,
                    diag |-> IF fb.context.threw THEN DiagThrown ELSE fb.context.error,
                    fallback |-> fb]
  /\ UNCHANGED <<clauses, procs, asyncPayload, cache, matchers>>

\* the function returned by ReusableMatcher.default(match.throw), called on
\* input
Default(input) == DefaultHandler("match.throw", input)

Next ==
  \/ \E c \in CaseCatalogue : Case(c)
  \/ \E c \in WhenCatalogue : When(c)
  \/ \E input \in Inputs : Default(input)

Spec == Init /\ [][Next]_vars

NextCompile ==
  \/ \E s \in SchemaCatalogue : MatchCase(s)
  \/ \E input \in CompileInputs : Default(input)

SpecCompile == Init /\ [][NextCompile]_vars

\* matcher['~standard'].validate(value)
StandardValidate(value) ==
  /\ Len(clauses) > 0
  /\ dispatch' = [built |-> TRUE, d |-> getDispatch]
  /\ \E state \in {exec(clauses, dispatch'.d, value)} :
       \E failure \in {IF state.matched \/ state.err # "none" THEN NoDiag
                        ELSE buildFailureResult(clauses, value)} :
         last' = [kind |-> "validate", input |-> value, state |-> state, diag |-> failure,
                  fallback |-> NoFallback]
  /\ UNCHANGED <<clauses, procs, asyncPayload, cache, matchers>>

NextDiag ==
  \/ \E c \in DiagCatalogue : Case(c)
  \/ \E c \in DiagWhenCatalogue : When(c)
  \/ \E input \in DiagInputs : Default(input)
  \/ \E input \in DiagInputs : StandardValidate(input)

SpecDiag == Init /\ [][NextDiag]_vars

\* what matcher['~standard'].validate(value) gives: a success result, a
\* failure result, or the throw of exec or of buildFailureResult
validateResult(state, failure) ==
  IF state.err # "none" THEN [threw |-> TRUE, ok |-> FALSE, value |-> NoVal]
  ELSE IF state.matched THEN [threw |-> FALSE, ok |-> TRUE, value |-> state.value]
  ELSE IF failure.threw THEN [threw |-> TRUE, ok |-> FALSE, value |-> NoVal]
  ELSE [threw |-> FALSE, ok |-> FALSE, value |-> NoVal]

\* compileGenericMatcher's sync over the matcher's validate: a result with
\* issues is NO_MATCH, any other is its value
matcherSync(result) == IF result.ok THEN Matched(result.value) ELSE NO_MATCH

\* exec of match.case(inner, x => x) where inner is the matcher in hand
execOuter(result) ==
  IF result.threw THEN [Unmatched(<<>>) EXCEPT !.err = "validate-threw"]
  ELSE IF matcherSync(result) = NO_MATCH THEN Unmatched(<<>>)
  ELSE [Unmatched(<<>>) EXCEPT !.matched = TRUE, !.idx = 1,
                               !.value = HandlerResult("sync", matcherSync(result).v, NoVal)]

\* the function match.case(inner, x => x).default(match.throw) returned,
\* called on input, where inner is the matcher in hand
OuterDefault(input) ==
  /\ Len(clauses) > 0
  /\ dispatch' = [built |-> TRUE, d |-> getDispatch]
  /\ \E state \in {exec(clauses, dispatch'.d, input)} :
       \E failure \in {IF state.matched \/ state.err # "none" THEN NoDiag
                        ELSE buildFailureResult(clauses, input)} :
         last' = [kind |-> "outer", input |-> input,
                  state |-> execOuter(validateResult(state, failure)),
                  diag |-> NoDiag, fallback |-> NoFallback]
  /\ UNCHANGED <<clauses, procs, asyncPayload, cache, matchers>>

NextNested ==
  \/ \E c \in DiagCatalogue : Case(c)
  \/ \E c \in DiagWhenCatalogue : When(c)
  \/ \E input \in DiagInputs : StandardValidate(input)
  \/ \E input \in DiagInputs : OuterDefault(input)

SpecNested == Init /\ [][NextNested]_vars

NextFallback ==
  \/ \E c \in DiagCatalogue : Case(c)
  \/ \E c \in DiagWhenCatalogue : When(c)
  \/ \E h \in Handlers, input \in DiagInputs : DefaultHandler(h, input)

SpecFallback == Init /\ [][NextFallback]_vars

(***************************************************************************)
(* Several reusable matchers held at once.  Each entry keeps the fields of *)
(* the object (clauses, dispatch) and, for the record, the matcher it was  *)
(* built from, the clause added, the clause list it was constructed with   *)
(* and the first result its function gave per input.                       *)
(***************************************************************************)
BuilderCatalogue ==
  { CaseClause(<<zObjAX>>, "none", "sync"), CaseClause(<<zObjBX>>, "none", "sync"),
    WhenClause("isN5", "sync") }

BuilderInputs == { Obj("sb", "undef", "n1"), P("n5") }

NoRun == [matched |-> FALSE, idx |-> 0 - 1, value |-> NoVal]

Outcome(state) == [matched |-> state.matched, idx |-> state.idx, value |-> state.value]

\* new ReusableMatcher(terminal, clauses)
NewReusableMatcher(cl, parent, added) ==
  [clauses |-> cl, dispatch |-> NotBuilt, parent |-> parent, added |-> added,
   born |-> cl, ran |-> [v \in BuilderInputs |-> NoRun]]

\* a case() that pushes the clause onto the receiver's own list
caseInPlace(ms, m, c) ==
  Append([ms EXCEPT ![m].clauses = Append(@, c)],
         NewReusableMatcher(Append(ms[m].clauses, c), m, <<c>>))

\* m.case(...) / m.when(...): new ReusableMatcher(this.terminal,
\* [...this.clauses, clause])
caseOf(ms, m, c) ==
  Append(ms, NewReusableMatcher(Append(ms[m].clauses, c), m, <<c>>))

\* this.getDispatch() of matcher m
dispatchOf(ms, m) ==
  IF ms[m].dispatch.built THEN ms[m].dispatch.d ELSE buildDispatchTable(ms[m].clauses)

\* match.input()
BuilderInput ==
  /\ Len(matchers) < MaxMatchers
  /\ matchers' = Append(matchers, NewReusableMatcher(<<>>, 0, <<>>))
  /\ UNCHANGED <<clauses, dispatch, last, procs, asyncPayload, cache>>

\* m.case(schema, handler)
BuilderCase(m, c) ==
  /\ Len(matchers) < MaxMatchers
  /\ Len(matchers[m].clauses) < MaxClauses
  /\ c.kind = "case"
  /\ matchers' = caseOf(matchers, m, c)
  /\ UNCHANGED <<clauses, dispatch, last, procs, asyncPayload, cache>>

\* m.when(predicate, handler)
BuilderWhen(m, c) ==
  /\ Len(matchers) < MaxMatchers
  /\ Len(matchers[m].clauses) < MaxClauses
  /\ c.kind = "when"
  /\ matchers' = caseOf(matchers, m, c)
  /\ UNCHANGED <<clauses, dispatch, last, procs, asyncPayload, cache>>

\* the function m.default(match.throw) returned, called on input
BuilderRun(m, input) ==
  /\ \E d \in {dispatchOf(matchers, m)} :
       \E state \in {exec(matchers[m].clauses, d, input)} :
         matchers' = [matchers EXCEPT
                        ![m].dispatch = [built |-> TRUE, d |-> d],
                        ![m].ran[input] = IF @ = NoRun THEN Outcome(state) ELSE @]
  /\ UNCHANGED <<clauses, dispatch, last, procs, asyncPayload, cache>>

NextBuilder ==
  \/ BuilderInput
  \/ \E m \in 1..Len(matchers), c \in BuilderCatalogue : BuilderCase(m, c)
  \/ \E m \in 1..Len(matchers), c \in BuilderCatalogue : BuilderWhen(m, c)
  \/ \E m \in 1..Len(matchers), input \in BuilderInputs : BuilderRun(m, input)

SpecBuilder == Init /\ [][NextBuilder]_vars

\* a guard or predicate result once awaited (a pending one settles truthy)
Awaited(g) == IF g = "promise" THEN "truthy" ELSE g

AsyncDone(matched, value, idx, input, log) ==
  [IdleProc EXCEPT !.pc = "done", !.input = input, !.log = log,
     !.out = [matched |-> matched, value |-> value, idx |-> idx, err |-> "none",
              log |-> <<>>]]

\* execAsync / execClauseAsync from schema j of clause i on, up to the await
\* of _zod.run on the shared asyncPayload, or to the end of the execution.
\* The other awaits touch nothing but the call's own locals.
\* log: "when" a predicate awaited, "start" a schema's async matcher called,
\* "matched" / "nomatch" its result settled, "guard" and "handler" awaited.
RECURSIVE asyncAdvance(_, _, _, _, _, _, _)
asyncAdvance(cls, input, i, j, cands, alias, log) ==
  IF i > Len(cls) THEN AsyncDone(FALSE, NoVal, 0, input, log)
  ELSE IF i \notin cands THEN asyncAdvance(cls, input, i + 1, 1, cands, alias, log)
  ELSE IF cls[i].kind = "when"
  THEN (IF Awaited(WhenResult(cls[i].when, input)) = "falsy"
        THEN asyncAdvance(cls, input, i + 1, 1, cands, alias,
                          Append(log, Ev("when", i, 0, input, NoVal)))
        ELSE AsyncDone(TRUE, input, i, input,
                       log \o <<Ev("when", i, 0, input, NoVal),
                                Ev("handler", i, 0, input, input)>>))
  ELSE IF j > Len(cls[i].schemas)
  THEN asyncAdvance(cls, input, i + 1, 1, cands, alias, log)
  ELSE
    LET s == cls[i].schemas[j]
        r == matchSchemaAsync(s, input)
        log1 == Append(log, Ev("start", i, j, input, NoVal))
        log2 == Append(log1, Ev("matched", i, j, r.v, NoVal))
        log3 == IF cls[i].guard = "none" THEN log2
                ELSE Append(log2, Ev("guard", i, j, r.v, input))
    IN
    IF usesPayload(s) /\ ~(ZodPreSome(s) /\ ~ZodPreCheck(s, input))
    THEN [IdleProc EXCEPT !.pc = "await", !.input = input, !.i = i, !.j = j,
            !.alias = alias, !.own = ZodPayload(s, input).value, !.log = log1]
    ELSE IF r = NO_MATCH
    THEN asyncAdvance(cls, input, i, j + 1, cands, alias,
                      Append(log1, Ev("nomatch", i, j, NoVal, NoVal)))
    ELSE IF cls[i].guard # "none"
            /\ Awaited(GuardResult(cls[i].guard, r.v, input)) = "falsy"
    THEN asyncAdvance(cls, input, i, j + 1, cands, alias, log3)
    ELSE AsyncDone(TRUE, r.v, i, input, Append(log3, Ev("handler", i, j, r.v, input)))

\* asyncPayload.value = value; asyncPayload.issues.length = 0; run.call(...)
PayloadAfter(nxt) ==
  IF nxt.pc = "await"
  THEN [asyncPayload EXCEPT ![clauses[nxt.i].schemas[nxt.j]] =
          ZodPayload(clauses[nxt.i].schemas[nxt.j], nxt.input)]
  ELSE asyncPayload

\* the function returned by ReusableMatcher.defaultAsync(handler), called on
\* input: it runs to its first await.  alias: _zod.run hands back the payload
\* object it was given, or a result object of its own.
DefaultAsync(p, input, alias) ==
  /\ Len(clauses) > 0
  /\ procs[p].pc = "idle"
  /\ dispatch' = [built |-> TRUE, d |-> getDispatch]
  /\ \E cands \in {Candidates(clauses, dispatch'.d, input)} :
       \E nxt \in {asyncAdvance(clauses, input, 1, 1, cands, alias, <<>>)} :
         /\ procs' = [procs EXCEPT ![p] = nxt]
         /\ asyncPayload' = PayloadAfter(nxt)
  /\ UNCHANGED <<clauses, last, cache, matchers>>

\* the call resumed after `await run.call(...)` leaving the clause on a no-match
resumeNextClause(pr, c, value, result) ==
  IF result = NO_MATCH
  THEN [pr EXCEPT !.pc = "ready", !.i = pr.i + 1, !.j = 1,
          !.log = Append(pr.log, Ev("nomatch", pr.i, pr.j, NoVal, NoVal))]
  ELSE AsyncDone(TRUE, value, pr.i, pr.input,
                 pr.log \o <<Ev("matched", pr.i, pr.j, value, NoVal),
                             Ev("handler", pr.i, pr.j, value, pr.input)>>)

\* execClauseAsync after `await matchSchemaAsync(...)`: guard, handler or on
resume(pr, c, value, result) ==
  LET log2 == Append(pr.log, Ev("matched", pr.i, pr.j, value, NoVal))
      log3 == IF c.guard = "none" THEN log2
              ELSE Append(log2, Ev("guard", pr.i, pr.j, value, pr.input))
  IN
  IF result = NO_MATCH
  THEN [pr EXCEPT !.pc = "ready", !.j = pr.j + 1,
          !.log = Append(pr.log, Ev("nomatch", pr.i, pr.j, NoVal, NoVal))]
  ELSE IF c.guard # "none" /\ Awaited(GuardResult(c.guard, value, pr.input)) = "falsy"
  THEN [pr EXCEPT !.pc = "ready", !.j = pr.j + 1, !.log = log3]
  ELSE AsyncDone(TRUE, value, pr.i, pr.input,
                 Append(log3, Ev("handler", pr.i, pr.j, value, pr.input)))

\* the call resumes after `await run.call(schema, asyncPayload, asyncCtx)`
AsyncResume(p) ==
  /\ procs[p].pc = "await"
  /\ LET pr == procs[p]
         c == clauses[pr.i]
         pay == asyncPayload[c.schemas[pr.j]]
         value == IF pr.alias THEN pay.value ELSE pr.own
         result == IF pay.issues = 0 THEN Matched(value) ELSE NO_MATCH
     IN procs' = [procs EXCEPT ![p] = resume(pr, c, value, result)]
  /\ UNCHANGED <<clauses, dispatch, last, asyncPayload, cache, matchers>>

\* the call goes on with the next schema or clause
AsyncContinue(p) ==
  /\ procs[p].pc = "ready"
  /\ \E pr \in {procs[p]} :
       \E cands \in {Candidates(clauses, dispatch.d, pr.input)} :
         \E nxt \in {asyncAdvance(clauses, pr.input, pr.i, pr.j, cands, pr.alias, pr.log)} :
           /\ procs' = [procs EXCEPT ![p] = nxt]
           /\ asyncPayload' = PayloadAfter(nxt)
  /\ UNCHANGED <<clauses, dispatch, last, cache, matchers>>

NextAsync ==
  \/ \E c \in AsyncCatalogue : Case(c)
  \/ \E p \in Procs, input \in AsyncInputs, alias \in BOOLEAN : DefaultAsync(p, input, alias)
  \/ \E p \in Procs : AsyncResume(p)
  \/ \E p \in Procs : AsyncContinue(p)

SpecAsync == Init /\ [][NextAsync]_vars

\* defaultAsync(match.throw) after `await this.execAsync(input)`: the call is
\* left matched, or the handler reads context.error
AsyncFallback(p) ==
  /\ procs[p].pc = "done"
  /\ \E state \in {[procs[p].out EXCEPT !.log = procs[p].log]} :
       \E built \in {errorOf(state, dispatch.d, procs[p].input)} :
         last' = [kind |-> "async", input |-> procs[p].input, state |-> state,
                  diag |-> built,
                  fallback |-> runFallback("match.throw", state, procs[p].input, built)]
  /\ procs' = [procs EXCEPT ![p] = IdleProc]
  /\ UNCHANGED <<clauses, dispatch, asyncPayload, cache, matchers>>

NextSkip ==
  \/ \E c \in SkipCatalogue : Case(c)
  \/ \E c \in DiagWhenCatalogue : When(c)
  \/ \E input \in SkipInputs : Default(input)
  \/ \E p \in Procs, input \in SkipInputs : DefaultAsync(p, input, FALSE)
  \/ \E p \in Procs : AsyncFallback(p)

SpecSkip == Init /\ [][NextSkip]_vars

\* the clauses and inputs of the executions whose handler calls are counted
OnceCatalogue ==
  AsyncCatalogue
    \cup { CaseClause(<<zObjAX>>, "none", "sync"), CaseClause(<<zObjBX>>, "none", "sync") }

OnceInputs == { P("sa"), P("n5"), Obj("sa", "undef", "n1") }

\* one call at a time: the first of the two call slots
NextOnce ==
  \/ \E c \in OnceCatalogue : Case(c)
  \/ \E input \in OnceInputs : Default(input)
  \/ \E input \in OnceInputs : DefaultAsync(1, input, FALSE)
  \/ AsyncResume(1)
  \/ AsyncContinue(1)
  \/ AsyncFallback(1)

SpecOnce == Init /\ [][NextOnce]_vars

Fresh(x) == ~cache.objs[x].live /\ \A y \in Instances : y < x => cache.objs[y].live

\* a validator instance is created (frozen or not)
NewValidator(x, lit, frozen) ==
  /\ Fresh(x)
  /\ cache' = [cache EXCEPT !.objs[x] =
                 [NoObj EXCEPT !.live = TRUE, !.lit = lit, !.frozen = frozen]]
  /\ UNCHANGED <<clauses, dispatch, last, procs, asyncPayload, matchers>>

\* {...a, literal: lit}: a new object with a's own enumerable properties,
\* string- and symbol-keyed, and its own literal (frozen afterwards or not)
CopyValidator(x, a, lit, frozen) ==
  /\ Fresh(x)
  /\ cache.objs[a].live
  /\ cache' = [cache EXCEPT !.objs[x] =
                 [NoObj EXCEPT !.live = TRUE, !.lit = lit, !.frozen = frozen,
                               !.slot = cache.objs[a].slot]]
  /\ UNCHANGED <<clauses, dispatch, last, procs, asyncPayload, matchers>>

\* Object.assign(Object.create(a), {literal: lit}): a new object inheriting from a
ExtendValidator(x, a, lit, frozen) ==
  /\ Fresh(x)
  /\ cache.objs[a].live
  /\ cache' = [cache EXCEPT !.objs[x] =
                 [NoObj EXCEPT !.live = TRUE, !.lit = lit, !.frozen = frozen, !.proto = a]]
  /\ UNCHANGED <<clauses, dispatch, last, procs, asyncPayload, matchers>>

\* matchSchemaSync(schema, value) / matchSchemaAsync(schema, value), settled
MatchSchema(x, v) ==
  /\ cache.objs[x].live
  /\ LET c == getCompiledMatcher(cache, x)
     IN cache' = [c EXCEPT !.ret.result = LiteralAttempt(vLit(c.ret.matcher.lit), v)]
  /\ UNCHANGED <<clauses, dispatch, last, procs, asyncPayload, matchers>>

NextCache ==
  \/ \E x \in Instances, lit \in Literals, frozen \in BOOLEAN : NewValidator(x, lit, frozen)
  \/ \E x, a \in Instances, lit \in Literals, frozen \in BOOLEAN :
       CopyValidator(x, a, lit, frozen)
  \/ \E x, a \in Instances, lit \in Literals, frozen \in BOOLEAN :
       ExtendValidator(x, a, lit, frozen)
  \/ \E x \in Instances, v \in {P("sa"), P("sb")} : MatchSchema(x, v)

SpecCache == Init /\ [][NextCache]_vars

\* matchSchemaSync(schema, value) on a clause schema without `~standard`
MatchNonSchema(kind) ==
  /\ cache' = [cache EXCEPT !.ret = rejectNonSchema(kind)]
  /\ UNCHANGED <<clauses, dispatch, last, procs, asyncPayload, matchers>>

NextAssert ==
  \/ \E x \in Instances, lit \in Literals, frozen \in BOOLEAN : NewValidator(x, lit, frozen)
  \/ \E x \in Instances, v \in {P("sa"), P("sb")} : MatchSchema(x, v)
  \/ \E kind \in NonSchemas : MatchNonSchema(kind)

SpecAssert == Init /\ [][NextAssert]_vars

(***************************************************************************)
(* Properties.                                                             *)
(***************************************************************************)
\* the events of the last call's log with operation op
Events(op) == {n \in 1..Len(last.state.log) : last.state.log[n].op = op}

\* the schema a log event is about
SchemaAt(e) == clauses[e.i].schemas[e.j]

\* a pure linear scan of all clauses in declaration order
LinearScan(input) == execLoop(clauses, input, 1, 1..Len(clauses), <<>>)

\* C1: exec with its dispatch table selects the same clause index as a pure
\* linear scan of all clauses in declaration order, or both report unmatched,
\* for every clause list (several schemas per clause included) and input.
C1_DispatchAgreesWithLinearScan ==
  last.kind = "sync" =>
    /\ last.state.matched = LinearScan(last.input).matched
    /\ last.state.idx = LinearScan(last.input).idx

\* the call returned or raised without a dispatch table being consulted
NoDispatchUsed == ~(dispatch.d.some /\ isPlainObject(last.input))

\* schema j of clause c matches the input and the guard, if any, is truthy
SchemaAccepts(c, j, input) ==
  /\ matchSchemaSync(c.schemas[j], input).t = "matched"
  /\ \/ c.guard = "none"
     \/ GuardResult(c.guard, matchSchemaSync(c.schemas[j], input).v, input) = "truthy"

\* the clause accepts the input
Accepts(c, input) ==
  IF c.kind = "when" THEN WhenResult(c.when, input) = "truthy"
  ELSE \E j \in 1..Len(c.schemas) : SchemaAccepts(c, j, input)

Accepting(input) == {i \in 1..Len(clauses) : Accepts(clauses[i], input)}

Least(S) == CHOOSE i \in S : \A j \in S : i <= j

\* C2: with no dispatch table in use, a call that returns selects the clause
\* of the lowest declaration index among the clauses that accept the input,
\* and reports unmatched only when no clause accepts it.
C2_FirstMatchWins ==
  (last.kind = "sync" /\ NoDispatchUsed /\ last.state.err = "none") =>
    IF Accepting(last.input) = {}
    THEN ~last.state.matched /\ last.state.idx = 0
    ELSE last.state.matched /\ last.state.idx = Least(Accepting(last.input))

\* two overlapping clauses accept the input and no table is in use
C2_Witness ==
  /\ last.kind = "sync"
  /\ NoDispatchUsed
  /\ isPlainObject(last.input)
  /\ Cardinality(Accepting(last.input)) >= 2
  /\ last.state.idx = Least(Accepting(last.input))

\* the clauses the last call attempted
Attempted == {last.state.log[n].i : n \in 1..Len(last.state.log)}

\* the schema positions of clause i the last call validated, in log order
Validated(i) ==
  LET at == {n \in Events("validate") : last.state.log[n].i = i}
  IN [m \in 1..Cardinality(at) |->
        last.state.log[CHOOSE n \in at : Cardinality({k \in at : k <= n}) = m].j]

AcceptingSchemas(c, input) == {j \in 1..Len(c.schemas) : SchemaAccepts(c, j, input)}

\* C6: a clause listing several schemas accepts the input iff some listed
\* schema matches it (and passes the guard); its schemas are tried in listed
\* order, its handler is called exactly once with the output of the first
\* such schema and the original input; if none matches the next clause is tried.
C6_MultiSchemaClause ==
  (last.kind = "sync" /\ last.state.err = "none") =>
    \A i \in Attempted :
      clauses[i].kind = "case" =>
        LET c == clauses[i]
            acc == AcceptingSchemas(c, last.input)
            stop == IF acc = {} THEN Len(c.schemas) ELSE Least(acc)
            calls == {n \in Events("handler") : last.state.log[n].i = i}
        IN /\ (last.state.idx = i) <=> (acc # {})
           /\ Validated(i) = [m \in 1..stop |-> m]
           /\ IF acc = {} THEN calls = {}
              ELSE /\ Cardinality(Events("handler")) = 1
                   /\ \E n \in calls :
                        /\ last.state.log[n].j = Least(acc)
                        /\ last.state.log[n].v1 =
                             matchSchemaSync(c.schemas[Least(acc)], last.input).v
                        /\ last.state.log[n].v2 = last.input
           /\ (acc = {} /\ \E k \in Candidates(clauses, dispatch.d, last.input) : k > i)
                => \E k \in Attempted : k > i

\* the second listed schema is the one whose output the handler gets
C6_Witness ==
  /\ last.kind = "sync"
  /\ \E n \in Events("handler") :
       /\ last.state.log[n].j = 2
       /\ last.state.log[n].v2 = last.input
       /\ last.state.matched

\* C7: a guard is evaluated only after its clause's schema matched, with
\* (matched value, input); a falsy guard skips that schema attempt without
\* invoking the clause's handler and does not disqualify the schema: a later
\* clause that tries the same schema on the same input still matches it.
C7_GuardAfterMatch ==
  last.kind = "sync" =>
    \A n \in Events("guard") :
      LET e == last.state.log[n]
          r == matchSchemaSync(SchemaAt(e), last.input)
      IN /\ n > 1
         /\ last.state.log[n - 1] = Ev("validate", e.i, e.j, last.input, NoVal)
         /\ r.t = "matched"
         /\ e.v1 = r.v
         /\ e.v2 = last.input
         /\ GuardResult(clauses[e.i].guard, e.v1, e.v2) = "falsy" =>
              /\ \A m \in Events("handler") :
                   ~(last.state.log[m].i = e.i /\ last.state.log[m].j = e.j)
              /\ \A m \in Events("validate") :
                   (m > n /\ last.state.log[m].i > e.i
                      /\ SchemaAt(last.state.log[m]) = SchemaAt(e))
                     => /\ m < Len(last.state.log)
                        /\ last.state.log[m + 1].op \in {"guard", "handler"}
                        /\ last.state.log[m + 1].i = last.state.log[m].i

\* a guard was falsy and a later clause with the same schema was selected
C7_Witness ==
  /\ last.kind = "sync"
  /\ last.state.matched
  /\ \E n \in Events("guard") :
       LET e == last.state.log[n]
       IN /\ GuardResult(clauses[e.i].guard, e.v1, e.v2) = "falsy"
          /\ last.state.idx > e.i
          /\ \E j \in 1..Len(clauses[last.state.idx].schemas) :
               clauses[last.state.idx].schemas[j] = SchemaAt(e)

\* event n of the last call met a pending computation
MetPending(n) ==
  LET e == last.state.log[n]
  IN CASE e.op = "validate" -> SchemaAt(e).async
       [] e.op = "guard" -> GuardResult(clauses[e.i].guard, e.v1, e.v2) = "promise"
       [] e.op = "when" -> WhenResult(clauses[e.i].when, last.input) = "promise"
       [] OTHER -> FALSE

C9_AsyncHandlerRaises ==
  last.kind = "sync" =>
    \A n \in Events("handler") :
      clauses[last.state.log[n].i].h = "async" =>
        /\ last.state.err # "none"
        /\ ~(last.state.matched /\ isPromiseLike(last.state.value))

\* the validator declares a transform, at its top or in a part
RECURSIVE hasTransform(_)
hasTransform(s) ==
  \/ s.xf # "none"
  \/ \E n \in 1..Len(s.shape) : hasTransform(s.shape[n].s)
  \/ \E n \in 1..Len(s.items) : hasTransform(s.items[n])
  \/ \E n \in 1..Len(s.options) : hasTransform(s.options[n])

\* C3: for a validator whose validation transforms an accepted input, the
\* compiled matcher returns the transformed output, and the handler gets it
\* as its first argument and the raw input as its second.
C3_TransformedOutput ==
  last.kind = "sync" =>
    \A n \in Events("validate") :
      LET s == SchemaAt(last.state.log[n])
          r == Validate(s, last.input)
      IN (~s.async /\ hasTransform(s) /\ r.ok /\ r.v # last.input) =>
           /\ matchSchemaSync(s, last.input) = Matched(r.v)
           /\ \E m \in Events("handler") :
                /\ last.state.log[m].v1 = r.v
                /\ last.state.log[m].v2 = last.input

\* C4: whenever a compiled matcher returns Matched for an input, full
\* validation of that input by the validator succeeds.
C4_MatchedImpliesValid ==
  last.kind = "sync" =>
    \A n \in Events("handler") :
      last.state.log[n].j > 0 =>
        Validate(SchemaAt(last.state.log[n]), last.input).ok

\* the schema's derived precheck rejects the value
PrecheckRejects(s, v) ==
  /\ ~compileLiteralMatcher(s)
  /\ \/ s.fam = "zod" /\ ZodPreSome(s) /\ ~ZodPreCheck(s, v)
     \/ s.fam = "valibot" /\ ValibotPreSome(s) /\ ~ValibotPreCheck(s, v)

\* C5: a value accepted by full validation is never rejected by the schema's
\* derived precheck.
C5_PrecheckNoFalseNegative ==
  last.kind = "sync" =>
    \A n \in Events("validate") :
      Validate(SchemaAt(last.state.log[n]), last.input).ok =>
        ~PrecheckRejects(SchemaAt(last.state.log[n]), last.input)

\* execAsync run by one caller alone
RECURSIVE execAsyncAlone(_, _, _, _)
execAsyncAlone(cls, input, i, cands) ==
  IF i > Len(cls) THEN Unmatched(<<>>)
  ELSE IF i \notin cands THEN execAsyncAlone(cls, input, i + 1, cands)
  ELSE
    LET c == cls[i]
        acc == {j \in 1..Len(c.schemas) :
                  /\ matchSchemaAsync(c.schemas[j], input).t = "matched"
                  /\ \/ c.guard = "none"
                     \/ Awaited(GuardResult(c.guard,
                          matchSchemaAsync(c.schemas[j], input).v, input)) = "truthy"}
    IN
    IF c.kind = "when"
    THEN (IF Awaited(WhenResult(c.when, input)) = "truthy"
          THEN [Unmatched(<<>>) EXCEPT !.matched = TRUE, !.value = input, !.idx = i]
          ELSE execAsyncAlone(cls, input, i + 1, cands))
    ELSE IF acc = {} THEN execAsyncAlone(cls, input, i + 1, cands)
    ELSE [Unmatched(<<>>) EXCEPT !.matched = TRUE, !.idx = i,
            !.value = matchSchemaAsync(c.schemas[Least(acc)], input).v]

\* C10: of two asynchronous executions of the same reusable matcher in flight
\* at the same time, each resolves to the result determined by its own input
\* alone, whatever the other wrote to the compiled matcher's asyncPayload.
C10_ConcurrentIsolation ==
  \A p \in Procs :
    procs[p].pc = "done" =>
      procs[p].out = execAsyncAlone(clauses, procs[p].input, 1,
                                    Candidates(clauses, dispatch.d, procs[p].input))

\* event e of a call's log comes before event f in clause-then-schema order
Before(e, f) == e.i < f.i \/ (e.i = f.i /\ e.j < f.j)

\* clause i was evaluated to its end by the call with log L
EvaluatedWhole(L, i) ==
  IF clauses[i].kind = "when"
  THEN \E n \in 1..Len(L) : L[n].op = "when" /\ L[n].i = i
  ELSE \A j \in 1..Len(clauses[i].schemas) :
         \E n \in 1..Len(L) : L[n].op \in {"nomatch", "guard"} /\ L[n].i = i /\ L[n].j = j

\* the steps of one asynchronous call follow one another in order
Sequential(pr) ==
  LET L == pr.log
      begins == {n \in 1..Len(L) : L[n].op \in {"start", "when"}}
  IN
  /\ \A m, n \in begins : m < n => Before(L[m], L[n])
  /\ \A n \in 1..Len(L) :
       /\ L[n].op = "start" =>
            IF n = Len(L) THEN pr.pc = "await"
            ELSE L[n + 1].op \in {"matched", "nomatch"}
                 /\ L[n + 1].i = L[n].i /\ L[n + 1].j = L[n].j
       /\ L[n].op \in {"matched", "nomatch"} =>
            n > 1 /\ L[n - 1] = Ev("start", L[n].i, L[n].j, pr.input, NoVal)
       /\ L[n].op = "matched" =>
            /\ n < Len(L)
            /\ L[n + 1].op = (IF clauses[L[n].i].guard = "none" THEN "handler" ELSE "guard")
            /\ L[n + 1].i = L[n].i /\ L[n + 1].j = L[n].j
       /\ L[n].op = "guard" =>
            /\ n > 1 /\ L[n - 1].op = "matched"
            /\ L[n - 1].i = L[n].i /\ L[n - 1].j = L[n].j
       /\ L[n].op = "handler" => n = Len(L) /\ pr.pc = "done"
  /\ pr.pc = "done" =>
       /\ pr.out.matched <=>
            (Len(L) > 0 /\ L[Len(L)].op = "handler" /\ L[Len(L)].i = pr.out.idx)
       /\ \A i \in Candidates(clauses, dispatch.d, pr.input) :
            (~pr.out.matched \/ i < pr.out.idx) => EvaluatedWhole(L, i)
       /\ \A n \in 1..Len(L) : pr.out.matched => L[n].i <= pr.out.idx

\* C11: within one asynchronous execution the clauses and their schemas are
\* evaluated one after another in clause-then-schema order: a validation or
\* predicate is started only when the previous validation and guard have
\* settled, and the first clause to accept in that order is the one selected.
C11_AsyncSequentialOrder == \A p \in Procs : Sequential(procs[p])

\* a call went past a clause whose zod validation it awaited and selected a later one
C11_Witness ==
  \E p \in Procs :
    /\ procs[p].pc = "done"
    /\ procs[p].out.matched
    /\ procs[p].out.idx > 1
    /\ \E n \in 1..Len(procs[p].log) :
         procs[p].log[n].op = "nomatch" /\ usesPayload(SchemaAt(procs[p].log[n]))
    /\ procs[3 - p].pc = "await"

\* the matcher stored for instance x itself: its own slot, else its side-table entry
Stored(c, x) == IF c.objs[x].slot # NoMatcher THEN c.objs[x].slot ELSE c.weak[x]

\* C12: compileMatcher runs at most once per validator instance: a call that
\* finds no matcher compiles one and stores it (own slot, or the side table
\* for an instance that cannot be annotated), every later call returns the
\* stored matcher, and a stored matcher is never replaced or removed.
C12_CompileOnce ==
  \A x \in Instances :
    /\ cache.compiles[x] <= 1
    /\ cache.compiles[x] = 1 => (Stored(cache, x).from = x /\ Stored(cache, x).n = 1)
    /\ (cache.ret.inst = x /\ Stored(cache, x) # NoMatcher)
         => cache.ret.matcher = Stored(cache, x)

\* C13: a match against a validator instance never uses a matcher compiled
\* from another instance, also when the instance copies or inherits from one.
C13_MatcherOfOwnInstance ==
  cache.ret.inst # 0 => cache.ret.matcher.from = cache.ret.inst

(***************************************************************************)
(* Failure diagnostics.                                                    *)
(***************************************************************************)
\* the last call was left unmatched and its MatchError was constructed
Diagnosed == last.kind = "sync" /\ last.diag.built /\ ~last.diag.threw

\* the clauses that carry a discriminator, and the first clause of each value
Discriminated == {i \in 1..Len(clauses) : ClauseDisc(clauses[i]).some}

FirstClauseOf(val) ==
  CHOOSE i \in Discriminated :
    /\ ClauseDisc(clauses[i]).value = val
    /\ \A k \in Discriminated : ClauseDisc(clauses[k]).value = val => i <= k

\* e lists every discriminator value once, in the order the values first occur
FirstSeenOrder(e) ==
  /\ Range(e) = {ClauseDisc(clauses[i]).value : i \in Discriminated}
  /\ \A a, b \in 1..Len(e) : a < b => FirstClauseOf(e[a]) < FirstClauseOf(e[b])

\* the clauses indexed under the discriminator value of the last input
IndexedUnder(val) == {i \in Discriminated : ClauseDisc(clauses[i]).value = val}

DiscriminatorMiss ==
  /\ Diagnosed
  /\ buildDispatchTable(clauses).some
  /\ isPlainObject(last.input)
  /\ IndexedUnder(Field(last.input, buildDispatchTable(clauses).key)) = {}

\* C14: when a dispatch table exists, the input is a plain keyed record and its
\* discriminator value is not a key of the table, the diagnostic carries
\* {key, value: the actual value, expected: all table values in first-seen
\* order, matched: false}, exactly one issue naming these, and no schema was
\* re-validated to build it.
C14_DiscriminatorMiss ==
  DiscriminatorMiss =>
    LET d == last.diag.discriminator
    IN /\ d.some /\ ~d.matched
       /\ d.key = buildDispatchTable(clauses).key
       /\ d.value = Field(last.input, d.key)
       /\ FirstSeenOrder(d.expected)
       /\ Len(last.diag.issues) = 1
       /\ last.diag.issues[1].kind = "discriminator"
       /\ last.diag.issues[1].names = d
       /\ last.diag.validated = <<>>

\* a miss on a table of two values, with a clause outside the table
C14_Witness ==
  /\ DiscriminatorMiss
  /\ Len(last.diag.discriminator.expected) = 2
  /\ Discriminated # 1..Len(clauses)
  /\ Field(last.input, last.diag.discriminator.key) = "SA"

\* e lists the schemas of the clauses I, each once, by clause and then by
\* listed position
SchemasOf(e, I) ==
  /\ \A n \in 1..Len(e) :
        /\ e[n].clause \in I
        /\ e[n].j \in 1..Len(clauses[e[n].clause].schemas)
        /\ e[n].s = clauses[e[n].clause].schemas[e[n].j]
  /\ \A i \in I : \A j \in 1..Len(clauses[i].schemas) :
        \E n \in 1..Len(e) : e[n].clause = i /\ e[n].j = j
  /\ \A a, b \in 1..Len(e) :
        a < b => \/ e[a].clause < e[b].clause
                 \/ e[a].clause = e[b].clause /\ e[a].j < e[b].j

DiscriminatorHit ==
  /\ Diagnosed
  /\ buildDispatchTable(clauses).some
  /\ isPlainObject(last.input)
  /\ IndexedUnder(Field(last.input, buildDispatchTable(clauses).key)) # {}

\* C15: when a dispatch table exists and the input's discriminator value is a
\* key of the table but no clause matched, the diagnostic has matched: true,
\* its schemas are the schemas of the clauses indexed under that value, in
\* clause order, and exactly those schemas are re-validated.
C15_DiscriminatorHit ==
  DiscriminatorHit =>
    LET d == last.diag.discriminator
        I == IndexedUnder(Field(last.input, buildDispatchTable(clauses).key))
    IN /\ d.some /\ d.matched
       /\ SchemasOf(last.diag.schemas, I)
       /\ last.diag.validated = last.diag.schemas

\* two clauses under the input's value, one of two schemas, and a clause
\* under another value
C15_Witness ==
  /\ DiscriminatorHit
  /\ Len(last.diag.schemas) = 3
  /\ Len(last.diag.discriminator.expected) = 2
  /\ Cardinality(IndexedUnder(Field(last.input, buildDispatchTable(clauses).key))) = 2

CaseClauses == {i \in 1..Len(clauses) : clauses[i].kind = "case"}

\* validateSync(schema, input) returns a result that has issues
Rejects(s, v) == ~validateSyncThrows(s) /\ ~Validate(s, v).ok

\* the positions of e whose schema rejects the input
Rejecting(e, v) == {n \in 1..Len(e) : Rejects(e[n].s, v)}

\* the issues are one group per rejecting schema of e, in the order of e
GroupPerRejecting(issues, e, v) ==
  LET groups == {n \in 1..Len(issues) : issues[n].kind = "case"}
  IN /\ Cardinality(groups) = Cardinality(Rejecting(e, v))
     /\ \A n \in Rejecting(e, v) :
          \E g \in groups : /\ issues[g].s = e[n].s
                            /\ issues[g].clause = e[n].clause
                            /\ issues[g].j = e[n].j
     /\ \A a, b \in groups :
          a < b => \/ issues[a].clause < issues[b].clause
                   \/ issues[a].clause = issues[b].clause /\ issues[a].j < issues[b].j

NoTableFailure == Diagnosed /\ ~buildDispatchTable(clauses).some

\* C16: when no dispatch table exists, the failure diagnostic re-validates
\* every schema of every schema clause, holds one issue group per schema that
\* rejects the input, ordered by clause and then by listed position, and its
\* schemas list is all schemas of all clauses in that order.
C16_NoTableRevalidatesAll ==
  NoTableFailure =>
    /\ SchemasOf(last.diag.schemas, CaseClauses)
    /\ last.diag.validated = last.diag.schemas
    /\ GroupPerRejecting(last.diag.issues, last.diag.schemas, last.input)

\* three schemas over two clauses: two reject, the third accepts and its guard
\* rejected
C16_Witness ==
  /\ NoTableFailure
  /\ Len(last.diag.schemas) = 3
  /\ Cardinality(CaseClauses) = 2
  /\ Cardinality(Rejecting(last.diag.schemas, last.input)) = 2
  /\ Len(last.diag.issues) = 2

NonRecordFailure == Diagnosed /\ ~isPlainObject(last.input)

\* C17: when the unmatched input is not a plain keyed record, the diagnostic
\* re-validates every schema of every clause and reports their issues, also
\* when a dispatch table exists for the clause list.
C17_NonRecordRevalidatesAll ==
  NonRecordFailure =>
    /\ SchemasOf(last.diag.validated, CaseClauses)
    /\ GroupPerRejecting(last.diag.issues, last.diag.validated, last.input)

\* C18: every issue of a diagnostic is tagged with the case number of the
\* clause that produced it, counted from 1 in the declaration order of the
\* clauses, also when a clause lists several schemas and when the dispatch
\* table narrowed the re-validated schemas.
C18_IssueTaggedWithClause ==
  Diagnosed =>
    \A n \in 1..Len(last.diag.issues) :
      last.diag.issues[n].kind = "case" =>
        last.diag.issues[n].case = last.diag.issues[n].clause

\* a MatchError, or the failure result of the matcher's validate, exists
FailureBuilt == last.diag.built /\ ~last.diag.threw

\* the schemas consulted for the last failure yield no issue, and no
\* discriminator miss is reported
YieldsNothing ==
  /\ Rejecting(last.diag.validated, last.input) = {}
  /\ ~(last.diag.discriminator.some /\ ~last.diag.discriminator.matched)

\* C19: the issues of a MatchError and of the failure result of a matcher's
\* validate are never empty: when the consulted schemas yield no issue, the
\* list is exactly one generic "no schema matches" issue.
C19_IssuesNeverEmpty ==
  FailureBuilt =>
    /\ Len(last.diag.issues) > 0
    /\ YieldsNothing => last.diag.issues = <<GenericIssue>>

\* validate on an input that a schema accepts and only a guard rejected
C19_Witness ==
  /\ FailureBuilt
  /\ last.kind = "validate"
  /\ Len(last.diag.validated) > 0
  /\ YieldsNothing
  /\ last.diag.issues = <<GenericIssue>>

\* C20: constructing the diagnostic error never throws because of the input:
\* when the input cannot be stringified the message holds a textual
\* placeholder and the issues, schemas and discriminator are still produced,
\* also for an input whose fallback conversion to a string fails.
C20_ConstructionNeverThrows ==
  (last.kind = "sync" /\ last.diag.built) =>
    /\ ~last.diag.threw
    /\ NonExhaustiveError(last.input).ok
    /\ HasCycle(last.input) =>
         /\ last.diag.message = Shown("string", NoVal)
         /\ Len(last.diag.issues) > 0
         /\ SchemasOf(last.diag.schemas,
                      {last.diag.schemas[n].clause : n \in 1..Len(last.diag.schemas)})

(***************************************************************************)
(* The terminal default(handler).                                          *)
(***************************************************************************)
\* C21: the diagnostic error of a failed match is built lazily and at most
\* once per failed call: a successful match and a fallback handler that never
\* reads context.error build nothing and re-validate nothing, the first read
\* builds the error with one validation pass over the consulted schemas, and
\* every later read returns the same error object without validating again.
C21_ErrorLazyMemoized ==
  last.kind = "sync" =>
    LET ctx == last.fallback.context
    IN /\ ctx.builds <= 1
       /\ Len(ctx.passes) <= ctx.builds
       /\ (last.state.matched \/ Reads(last.fallback.handler) = 0)
            => (ctx.builds = 0 /\ ~last.diag.built)
       /\ (last.fallback.calls = 1 /\ Reads(last.fallback.handler) > 0)
            => ctx.builds = 1
       /\ \A n \in 1..Len(ctx.got) : ctx.got[n] = 1
       /\ \A n \in 1..Len(ctx.passes) : ctx.passes[n] = last.diag.validated

\* a handler that read context.error twice, after a pass over two schemas
C21_Witness ==
  /\ last.kind = "sync"
  /\ last.fallback.handler = "twice"
  /\ last.fallback.context.got = <<1, 1>>
  /\ Len(last.fallback.context.passes) = 1
  /\ Len(last.diag.validated) = 2

\* C22: for default(handler), when a clause matched the call returns that
\* clause handler's result and the fallback handler is not invoked; when none
\* matched the fallback handler is invoked exactly once with the original
\* input and its result or throw is the outcome: match.throw throws a
\* MatchError carrying the original input, ({error}) => error returns it.
C22_DefaultModes ==
  (last.kind = "sync" /\ last.state.err = "none") =>
    LET fb == last.fallback
    IN /\ last.state.matched
            => (fb.calls = 0 /\ fb.how = "return" /\ fb.what = "clause")
       /\ ~last.state.matched =>
            /\ fb.calls = 1
            /\ fb.input = last.input
            /\ fb.handler = "match.throw"
                 => (fb.how = "throw" /\ fb.what = "MatchError"
                       /\ last.diag.built /\ last.diag.input = last.input)
            /\ fb.handler = "error"
                 => (fb.how = "return" /\ fb.what = "MatchError"
                       /\ last.diag.built /\ last.diag.input = last.input)
            /\ fb.handler = "ignore" => (fb.how = "return" /\ fb.what = "fallback")

(***************************************************************************)
(* Persistent construction.                                                *)
(***************************************************************************)
\* C23: case() and when() never modify their receiver: whatever builder calls
\* branch from a matcher, its clause list stays the one it was constructed
\* with, its cached dispatch table stays the table of that list, every
\* function obtained from it gives the result it gave before, and the matcher
\* a call returns has the receiver's clauses followed by the one new clause.
C23_BuildersPersistent ==
  \A m \in 1..Len(matchers) :
    LET x == matchers[m]
    IN /\ x.clauses = x.born
       /\ x.dispatch.built => x.dispatch.d = buildDispatchTable(x.born)
       /\ x.parent # 0 => x.clauses = matchers[x.parent].clauses \o x.added
       /\ \A v \in BuilderInputs :
            x.ran[v] # NoRun
              => x.ran[v] = Outcome(exec(x.clauses, dispatchOf(matchers, m), v))

\* a matcher built from one whose function was called: the receiver leaves an
\* input unmatched that the new matcher's added clause matches
C23_Witness ==
  /\ Len(matchers) = 3
  /\ matchers[2].parent = 1 /\ matchers[3].parent = 2
  /\ matchers[2].dispatch.built
  /\ \E v \in BuilderInputs :
       /\ matchers[2].ran[v] # NoRun /\ ~matchers[2].ran[v].matched
       /\ matchers[3].ran[v].matched

(***************************************************************************)
(* A reusable matcher as a validator.                                      *)
(***************************************************************************)
\* the matcher's own execution on the last input
OwnExec == exec(clauses, buildDispatchTable(clauses), last.input)

\* C24: the validate of a reusable matcher agrees with its execution: it
\* returns a success result holding the selected handler's result iff some
\* clause matches, and otherwise a failure result; as a case schema of an
\* outer matcher, the outer handler receives the inner handler's result and
\* the outer clause is skipped exactly when no inner clause matches.
C24_MatcherAsValidator ==
  /\ (last.kind = "validate" /\ OwnExec.err = "none") =>
        LET r == validateResult(last.state, last.diag)
        IN /\ ~r.threw
           /\ r.ok <=> OwnExec.matched
           /\ r.ok => r.value = OwnExec.value
           /\ ~r.ok => Len(last.diag.issues) > 0
  /\ (last.kind = "outer" /\ OwnExec.err = "none") =>
        /\ last.state.err = "none"
        /\ last.state.matched <=> OwnExec.matched
        /\ last.state.matched => last.state.value = OwnExec.value

\* C25: a clause schema without a `~standard` property (a plain object, a
\* function, null or undefined) is rejected with the error 'Expected a
\* Standard Schema value' and no matcher is compiled for it.
C25_NonSchemaRejected ==
  cache.ret.arg # "schema" =>
    /\ cache.ret.error = "Expected a Standard Schema value"
    /\ ~cache.ret.compiled
    /\ cache.ret.matcher = NoMatcher

(***************************************************************************)
(* Completeness of the structural prechecks.                               *)
(***************************************************************************)
\* the sub-schemas of a node: shape entries, items and options
subSchemas(s) ==
  {s.shape[i].s : i \in 1..Len(s.shape)}
    \cup {s.items[i] : i \in 1..Len(s.items)}
    \cup {s.options[i] : i \in 1..Len(s.options)}

\* some node of the tree carries a non-empty checks list or pipe
RECURSIVE carriesChecks(_)
carriesChecks(s) ==
  \/ s.checks # "none"
  \/ s.xf # "none"
  \/ \E sub \in subSchemas(s) : carriesChecks(sub)

\* the precheck compiler of the schema's family knows every node of the tree
RECURSIVE recognized(_)
recognized(s) ==
  /\ IF s.fam = "zod" THEN ZodPreSome(s) ELSE ValibotPreSome(s)
  /\ \A sub \in subSchemas(s) : recognized(sub)

\* the precheck of the schema is classified complete
classifiedComplete(s) ==
  \/ s.fam = "zod" /\ ZodPreSome(s) /\ ZodPreComplete(s)
  \/ s.fam = "valibot" /\ ValibotPreSome(s) /\ ValibotPreComplete(s)

\* C26: a schema tree is classified complete by compileZodLikePrecheck and
\* compileValibotPrecheck only if no node of the tree, the root included
\* whatever its type, carries a checks list or a pipe, and every sub-schema
\* was recognized; a tree with a refinement, a pipeline stage or an
\* unrecognized sub-schema is partial or has no precheck.
C26_CompleteOnlyWithoutChecks ==
  \A i \in 1..Len(clauses) :
    clauses[i].kind = "case" =>
      \A j \in 1..Len(clauses[i].schemas) :
        LET s == clauses[i].schemas[j]
        IN classifiedComplete(s) => ~carriesChecks(s) /\ recognized(s)

\* the same statement for every tree but a zod union with checks of its own
C26_ExceptRefinedUnion ==
  \A i \in 1..Len(clauses) :
    clauses[i].kind = "case" =>
      \A j \in 1..Len(clauses[i].schemas) :
        LET s == clauses[i].schemas[j]
        IN (classifiedComplete(s)
              /\ ~(s.fam = "zod" /\ s.type = "union" /\ s.checks # "none"))
             => ~carriesChecks(s) /\ recognized(s)

(***************************************************************************)
(* The dispatch path of exec.                                              *)
(***************************************************************************)
\* the clause indices of a log in the order the clauses were first attempted
RECURSIVE attempted(_, _)
attempted(log, seen) ==
  IF Len(log) = 0 THEN <<>>
  ELSE IF log[1].i \in seen THEN attempted(Tail(log), seen)
  ELSE <<log[1].i>> \o attempted(Tail(log), seen \cup {log[1].i})

\* the last call ran on a plain keyed record with a dispatch table
Dispatched ==
  /\ last.kind = "sync"
  /\ dispatch.built /\ dispatch.d.some
  /\ isPlainObject(last.input)

\* C27: with a dispatch table and a plain keyed record of discriminator value
\* v, exec attempts exactly the clauses of the bucket of v and of the fallback
\* set, in ascending index, and stops at the first match; no clause indexed
\* under another value is attempted, and every fallback clause below the
\* winner is attempted before it.
C27_DispatchRouting ==
  Dispatched =>
    LET d == dispatch.d
        v == Field(last.input, d.key)
        att == attempted(last.state.log, {})
        routed == Pushed(TableGet(d, v) \cup Range(d.fallback))
    IN /\ Len(att) <= Len(routed) /\ att = SubSeq(routed, 1, Len(att))
       /\ last.state.matched => Len(att) > 0 /\ att[Len(att)] = last.state.idx
       /\ (~last.state.matched /\ last.state.err = "none") => att = routed
       /\ \A k \in 1..Len(att) :
            ClauseDisc(clauses[att[k]]).some => ClauseDisc(clauses[att[k]]).value = v
       /\ last.state.matched =>
            \A f \in Range(d.fallback) :
              f < last.state.idx =>
                \E k \in 1..Len(att) - 1 : att[k] = f

\* a record routed past a clause of another discriminator value to a winner
\* that follows a fallback clause
C27_Witness ==
  /\ Dispatched
  /\ last.state.matched
  /\ \E i \in 1..Len(clauses) :
       /\ i < last.state.idx
       /\ ClauseDisc(clauses[i]).some
       /\ ClauseDisc(clauses[i]).value # Field(last.input, dispatch.d.key)
  /\ \E f \in Range(dispatch.d.fallback) : f < last.state.idx

(***************************************************************************)
(* The shape of the dispatch table.                                        *)
(***************************************************************************)
\* a sequence of clause indices in strictly ascending order
Ascending(s) == \A a, b \in 1..Len(s) : a < b => s[a] < s[b]

\* the position in a sequence of schemas of the first one with a discriminator
firstExtractable(schemas) ==
  LET hit == {j \in 1..Len(schemas) : extractDiscriminator(schemas[j]).some}
  IN IF hit = {} THEN 0 ELSE CHOOSE j \in hit : \A k \in hit : j <= k

\* C28: buildDispatchTable returns no table iff there are fewer than 2
\* clauses, no clause yields a discriminator, or two clauses yield different
\* keys; otherwise every clause index is in exactly one bucket (that of its
\* first extractable discriminator value) or in the fallback set, buckets are
\* ascending, expectedValues lists the distinct values in first-seen order,
\* bare-predicate clauses and clauses without a discriminator are fallback.
C28_DispatchTableShape ==
  dispatch.built =>
    LET d == dispatch.d
        n == Len(clauses)
        first == [i \in 1..n |->
                    IF clauses[i].kind = "when" THEN 0
                    ELSE firstExtractable(clauses[i].schemas)]
        discOf(i) == extractDiscriminator(clauses[i].schemas[first[i]])
        yields == {i \in 1..n : first[i] # 0}
        buckets(i) == {e \in 1..Len(d.table) : i \in Range(d.table[e].idxs)}
    IN /\ ~d.some <=> \/ n < 2
                      \/ yields = {}
                      \/ \E i, j \in yields : discOf(i).key # discOf(j).key
       /\ d.some =>
            /\ \A i \in yields : d.key = discOf(i).key
            /\ \A i \in 1..n :
                 IF i \in yields
                 THEN /\ i \notin Range(d.fallback)
                      /\ Cardinality(buckets(i)) = 1
                      /\ \A e \in buckets(i) : d.table[e].value = discOf(i).value
                 ELSE i \in Range(d.fallback) /\ buckets(i) = {}
            /\ Ascending(d.fallback) /\ Range(d.fallback) \subseteq 1..n
            /\ \A e \in 1..Len(d.table) :
                 /\ Ascending(d.table[e].idxs)
                 /\ Len(d.table[e].idxs) > 0
                 /\ Range(d.table[e].idxs) \subseteq 1..n
            /\ Len(d.expectedValues) = Len(d.table)
            /\ \A e \in 1..Len(d.table) : d.expectedValues[e] = d.table[e].value
            /\ \A e, g \in 1..Len(d.table) :
                 e < g => /\ d.table[e].value # d.table[g].value
                          /\ d.table[e].idxs[1] < d.table[g].idxs[1]

\* a table of two buckets built over a clause list that has a fallback clause
C28_Witness ==
  /\ dispatch.built /\ dispatch.d.some
  /\ Len(dispatch.d.table) = 2
  /\ Len(dispatch.d.fallback) = 1
  /\ dispatch.d.fallback[1] < dispatch.d.table[2].idxs[1]

(***************************************************************************)
(* Validators the diagnostics cannot run.                                  *)
(***************************************************************************)
\* the last call, synchronous or asynchronous, ended unmatched
EndedUnmatched ==
  /\ last.kind \in {"sync", "async"}
  /\ ~last.state.matched /\ last.state.err = "none"

\* the schemas the loop of analyzeFailure goes through for the last input
looped ==
  LET d == dispatch.d
      cands == IF d.some /\ isPlainObject(last.input)
               THEN TableGet(d, Field(last.input, d.key)) ELSE {}
  IN IF ~d.some THEN allSchemas(clauses)
     ELSE IF cands = {} THEN <<>>
     ELSE flatSchemas(clauses, Pushed(cands))

\* the positions in the loop of the schemas validateSync throws on
skipped == {n \in 1..Len(looped) : validateSyncThrows(looped[n].s)}

\* the positions in the loop of the schemas that run and reject the input
rejecting ==
  {n \in 1..Len(looped) \ skipped : ~Validate(looped[n].s, last.input).ok}

\* a skipped schema gives no issue, the others give theirs, and the
\* diagnostic exists
SkippedSilently ==
  /\ last.diag.built /\ ~last.diag.threw
  /\ \A k \in 1..Len(last.diag.issues) :
       last.diag.issues[k].kind = "case" => last.diag.issues[k].case \notin skipped
  /\ \A n \in rejecting :
       \E k \in 1..Len(last.diag.issues) :
         last.diag.issues[k].kind = "case" /\ last.diag.issues[k].case = n
  /\ rejecting = {} => last.diag.issues = <<GenericIssue>>

\* C29: while a diagnostic is built, a schema whose re-validation throws or
\* is asynchronous is skipped silently: it gives no issue, the other schemas
\* still give theirs, and the outcome is the 'no match' diagnostic, not a
\* secondary error, in the synchronous and the asynchronous terminal alike.
C29_UnrunnableSkipped ==
  (EndedUnmatched /\ skipped # {}) => SkippedSilently

\* the same statement for the inputs String() can convert
C29_ExceptUnprintable ==
  (EndedUnmatched /\ skipped # {} /\ ~StringThrows(last.input)) => SkippedSilently

\* the synchronous terminal skipped a schema while another gave its issues
C29_SkipsInSync ==
  /\ EndedUnmatched /\ last.kind = "sync"
  /\ skipped # {} /\ rejecting # {} /\ SkippedSilently

\* the asynchronous terminal did
C29_SkipsInAsync ==
  /\ EndedUnmatched /\ last.kind = "async"
  /\ skipped # {} /\ rejecting # {} /\ SkippedSilently

(***************************************************************************)
(* Handler calls of one execution.                                         *)
(***************************************************************************)
\* the positions of the clause handler calls in the log of the last call
HandlerCalls == Events("handler")

\* C30: in one execution, synchronous or asynchronous, with or without a
\* dispatch table, at most one clause handler is invoked, and exactly when
\* its clause is selected; nothing is evaluated after the selection, the
\* fallback handler runs only if no clause handler ran, and the handler of a
\* bare-predicate clause is called with (input, input).
C30_OneHandlerPerExecution ==
  last.kind \in {"sync", "async"} =>
    /\ Cardinality(HandlerCalls) <= 1
    /\ last.state.matched <=> HandlerCalls # {}
    /\ \A n \in HandlerCalls :
         /\ n = Len(last.state.log)
         /\ last.state.log[n].i = last.state.idx
         /\ last.state.log[n].v2 = last.input
         /\ clauses[last.state.idx].kind = "when" => last.state.log[n].v1 = last.input
    /\ last.fallback.calls <= 1
    /\ last.fallback.calls = 1 <=> (HandlerCalls = {} /\ last.state.err = "none")

\* an asynchronous execution over a dispatch table selected its third clause
\* after a fallback clause was tried and a clause of another value passed over
C30_Witness ==
  /\ last.kind = "async"
  /\ dispatch.d.some /\ isPlainObject(last.input)
  /\ last.state.matched /\ last.state.idx = 3
  /\ Len(last.state.log) > 2
  /\ last.fallback.calls = 0

\* a bare-predicate clause was selected by a synchronous execution
C30_WhenSelected ==
  /\ last.kind = "sync"
  /\ last.state.matched
  /\ clauses[last.state.idx].kind = "when"

====
